---- MODULE Spec2Model ----
(***************************************************************************)
(* Verification model of the Turbulence execution engine.                  *)
(*                                                                         *)
(*   Spec       the scenario runner (engine/scenario_runner.py): one call  *)
(*              of ScenarioRunner.execute_flow over a scenario tree.       *)
(*   SpecSink   the record stream one or two instance tasks send to the    *)
(*              storage sink when the scenario may contain branches.       *)
(*   SpecGrpc   one call of GrpcActionRunner.execute (actions/grpc.py).     *)
(*   SpecFactory  registrations and creations on ActionRunnerFactory        *)
(*              (actions/factory.py).                                      *)
(*   SpecGate   one evaluation of a gating Threshold (gating/threshold.py). *)
(*   SpecEngine the same runner built with a turbulence engine and a set   *)
(*              of loaded policies.                                        *)
(*   SpecFair   Spec under weak fairness of the runner's steps.            *)
(*   SpecTimed  the same runner on entries that carry a step delay and a   *)
(*              timing jitter.                                             *)
(*   SpecExec   the parallel executor (spec section 4.14).                 *)
(*   SpecRetry  the HTTP retry state machine (spec section 4.7).           *)
(*   SpecDecide two DecideActionRunners (actions/decide.py) built from the  *)
(*              same seed and weight map.                                  *)
(*   SpecPool   tasks calling the shared ClientPool (engine/client_pool.py).*)
(*   SpecDet    two runs of the executor on the same inputs, each running  *)
(*              its instances on the scenario runner and one ClientPool.   *)
(***************************************************************************)
EXTENDS Integers, Sequences, FiniteSets, TLC

(***************************************************************************)
(* Bounds of the model.                                                    *)
(***************************************************************************)
MaxFlowLen == 2
MaxStepsBound == 3
MaxInstances == 3
MaxParallelism == 2
MaxRunSteps == 2
MaxAttempts == 3
MaxWeight == 1
MaxChoices == 2
MaxTasks == 2
MaxCalls == 3
MaxDetInstances == 2
MaxRegistrations == 3
MaxCreates == 2
MaxDirectWrites == 1

MaxStorageCalls == 4

VARIABLES scenario, policy, frames, emitted, steps_executed, status, awaiting,
          runner_calls, client_gets, branch_evals, visits, delays

runnerVars == <<scenario, policy, frames, emitted, steps_executed, status, awaiting,
                runner_calls, client_gets, branch_evals, visits, delays>>

\* The parallel executor: run configuration, semaphore permits, instance tasks
\* and the records the storage sink has received for each instance.
VARIABLES run, permits, task, step_records, assertion_records, instance_records,
          run_steps, sink

execVars == <<run, permits, task, step_records, assertion_records, instance_records,
              run_steps, sink>>

\* The HTTP retry state machine: retry configuration, the outcome of every
\* request sent, the attempt trail, the backoff sleeps and the observations
\* returned.
VARIABLES retry, request_log, attempts, sleeps, observations, phase

retryVars == <<retry, request_log, attempts, sleeps, observations, phase>>

\* Two DecideActionRunners built from one configuration: the configuration,
\* each runner's generator state, the choices each has returned, the runners
\* whose _weighted_choice raised, and what execute returned.
VARIABLES dec, rng, choices, dec_raised, executions

decideVars == <<dec, rng, choices, dec_raised, executions>>

\* The shared ClientPool: the two maps (dict items in insertion order), the
\* asyncio.Lock (holder and FIFO waiters), each task's position, the cursor of
\* a close_all in progress, every client and channel ever constructed with
\* the number of times the pool closed it, and what each call returned.
VARIABLES http_clients, grpc_channels, lock_holder, waiters, pc, close_pos,
          objects, returned, pool_calls

poolVars == <<http_clients, grpc_channels, lock_holder, waiters, pc, close_pos,
              objects, returned, pool_calls>>

\* Two runs on the same inputs, one after the other: the inputs, the run in
\* progress with the instance task the event loop is running and the order
\* in which its tasks ended, the suspended runner of every other task, and
\* what the first run wrote.
VARIABLES det, det_run, det_tasks, det_records

detVars == <<det, det_run, det_tasks, det_records>>

\* One GrpcActionRunner.execute call: the action, the channel the runner was
\* built with, what the server and the protobuf layer will answer, the
\* caller's context dict, its items when the call was made, and where the
\* call stands or what it did.
VARIABLES grpc_action, runner_channel, grpc_env, grpc_context, grpc_passed, grpc_result

grpcVars ==
  <<grpc_action, runner_channel, grpc_env, grpc_context, grpc_passed, grpc_result>>

\* ActionRunnerFactory: the class-level registry, the registrations made so
\* far, and what every create call returned.
VARIABLES factory_runners, registrations, created

factoryVars == <<factory_runners, registrations, created>>

\* One Threshold.evaluate call: the threshold, the summary's metric value and
\* the result.  Numbers are held in hundredths (0.95 is 95, 98.5 is 9850).
VARIABLES threshold, summary, gate_result

gateVars == <<threshold, summary, gate_result>>

\* The two storage writers driven by one sequence of calls: the JSONL
\* writer's three files, the SQLite writer's database, for every call made
\* whether each writer raised, and the number of lines written to the files
\* with write_jsonl_record.
VARIABLES jsonl, sqlite, storage_calls, jsonl_direct

storageVars == <<jsonl, sqlite, storage_calls, jsonl_direct>>

vars == <<runnerVars, execVars, retryVars, decideVars, poolVars, detVars,
          grpcVars, factoryVars, gateVars, storageVars>>

\* What each component leaves alone: the state of the other components.
notRunnerVars == <<execVars, retryVars, decideVars, poolVars, detVars,
   grpcVars, factoryVars, gateVars, storageVars>>
\* What the runner's access to the ClientPool leaves alone.
notRunnerPoolVars == <<execVars, retryVars, decideVars, detVars,
   grpcVars, factoryVars, gateVars, storageVars>>
notExecVars == <<runnerVars, retryVars, decideVars, poolVars, detVars,
   grpcVars, factoryVars, gateVars, storageVars>>
notRetryVars == <<runnerVars, execVars, decideVars, poolVars, detVars,
   grpcVars, factoryVars, gateVars, storageVars>>
notDecideVars == <<runnerVars, execVars, retryVars, poolVars, detVars,
   grpcVars, factoryVars, gateVars, storageVars>>
notPoolVars == <<runnerVars, execVars, retryVars, decideVars, detVars,
   grpcVars, factoryVars, gateVars, storageVars>>
notDetVars == <<runnerVars, execVars, retryVars, decideVars, poolVars,
   grpcVars, factoryVars, gateVars, storageVars>>
notGrpcVars == <<runnerVars, execVars, retryVars, decideVars, poolVars, detVars,
   factoryVars, gateVars, storageVars>>
notFactoryVars == <<runnerVars, execVars, retryVars, decideVars, poolVars, detVars,
   grpcVars, gateVars, storageVars>>
notGateVars == <<runnerVars, execVars, retryVars, decideVars, poolVars, detVars,
   grpcVars, factoryVars, storageVars>>
notStorageVars == <<runnerVars, execVars, retryVars, decideVars, poolVars, detVars,
   grpcVars, factoryVars, gateVars>>

(***************************************************************************)
(* Data model: actions, context, observations.                             *)
(***************************************************************************)
Leaf(kind, condition) ==
  [kind |-> kind, condition |-> condition, if_true |-> <<>>, if_false |-> <<>>]

BranchAction(condition, if_true, if_false) ==
  [kind |-> "branch", condition |-> condition, if_true |-> if_true, if_false |-> if_false]

\* A DecideAction that names its output_var.
DecideInto(key) ==
  [kind |-> "decide", condition |-> "", if_true |-> <<>>, if_false |-> <<>>,
   output_var |-> key]

\* DecideAction.output_var: "decision_result" unless the action names one.
action_output_var(action) ==
  IF "output_var" \in DOMAIN action THEN action.output_var ELSE "decision_result"

\* Conditions used by the scenarios: "" (none), the literals "true" and
\* "false", and "last_ok", the template {{last_response.status_code}} == 200.
InnerBranch ==
  BranchAction("false", <<Leaf("assert", "")>>, <<Leaf("http", ""), Leaf("decide", "")>>)

TopNodes ==
  { Leaf("http", ""), Leaf("http", "false"), Leaf("http", "last_ok"),
    Leaf("wait", ""), Leaf("assert", ""), Leaf("decide", ""), Leaf("grpc", ""),
    DecideInto("last_response"),
    BranchAction("true", <<Leaf("http", "")>>, <<Leaf("wait", "")>>),
    BranchAction("last_ok", <<Leaf("http", ""), InnerBranch>>, <<Leaf("assert", "false")>>),
    BranchAction("false", <<>>, <<Leaf("http", "last_ok"), Leaf("http", "")>>) }

Flows == UNION { [1..n -> TopNodes] : n \in 0..MaxFlowLen }

DefaultMaxSteps == 100

MaxStepsValues == (0..MaxStepsBound) \cup {DefaultMaxSteps}

\* The context is a dict: an object that the context variables of the
\* generators and the yielded tuples hold by reference.  The one dict that is
\* ever assigned to is the dict the running generator's context refers to, so
\* a reference is held as the items its dict shows together with current,
\* which tells whether it refers to that dict; the items of any other dict
\* no longer change.
InitialContext ==
  [current |-> TRUE,
   has_last |-> FALSE,
   last_response |-> [status_code |-> 0, headers |-> "", body |-> ""],
   decision_result |-> ""]

\* The items of {**context, key: value} for a string value.  A string stored
\* under last_response is held as [str |-> value], the key holding a response
\* otherwise.
context_set(context, key, value) ==
  IF key = "last_response"
  THEN [context EXCEPT !.has_last = TRUE, !.last_response = [str |-> value]]
  ELSE [context EXCEPT ![key] = value]

\* context["last_response"]["status_code"] can be read: the key is set and
\* holds a response.
has_status(context) ==
  context.has_last /\ "status_code" \in DOMAIN context.last_response

\* Equal weights for the two options of the decision the scenarios name.
EqualWeights == <<[name |-> "a", weight |-> 1], [name |-> "b", weight |-> 1]>>

BoolStr(b) == IF b THEN "True" ELSE "False"

Observation(ok, protocol, status_code, headers, body) ==
  [ok |-> ok, protocol |-> protocol, status_code |-> status_code,
   headers |-> headers, body |-> body, latency_ms |-> 1,
   branch_condition |-> "", branch_result |-> "None", branch_taken |-> "None",
   condition_skipped |-> FALSE]

\* A response of the network, as the HTTP and wait runners report it:
\* status 0 stands for "no response" (status_code None).
HttpResponse(status_code) ==
  Observation(status_code = 200, "http", status_code,
              IF status_code = 0 THEN "" ELSE "h" \o ToString(status_code),
              IF status_code = 0 THEN "" ELSE "b" \o ToString(status_code))

NetworkOutcomes == {200, 500, 0}

DecideOptions == {"a", "b"}

(***************************************************************************)
(* ConditionEvaluator.evaluate_safe: render, evaluate, default on error.   *)
(* A template that names a missing context key raises a template error.   *)
(***************************************************************************)
evaluate_safe_error_true(condition, context, default) ==
  CASE condition = "" -> TRUE
    [] condition = "true" -> TRUE
    [] condition = "false" -> FALSE
    [] condition = "last_ok" ->
         IF has_status(context) THEN context.last_response.status_code = 200 ELSE TRUE

evaluate_safe(condition, context, default) ==
  CASE condition = "" -> TRUE
    [] condition = "true" -> TRUE
    [] condition = "false" -> FALSE
    [] condition = "last_ok" ->
         IF has_status(context) THEN context.last_response.status_code = 200 ELSE default

(***************************************************************************)
(* The client pool (engine/client_pool.py).  Tasks are coroutines on one   *)
(* event loop: a task runs until it awaits.  get_http_client and           *)
(* get_grpc_channel await only the lock; close_all also awaits every       *)
(* aclose() / close() while it holds the lock.  asyncio.Lock is FIFO: a    *)
(* caller takes a free lock at once only when nobody waits for it.         *)
(* An aclose() / close() that close_all awaits may return, or raise (an    *)
(* error of the transport, or the cancellation of the task); close_all     *)
(* catches nothing.  A client or channel is an index into objects.         *)
(***************************************************************************)
Tasks == 1..MaxTasks

\* SUTConfig.services of the pool, by protocol; "missing" is not a service.
SutServices == [api |-> "http", auth |-> "http", grpc_svc |-> "grpc"]

ServiceNames == {"api", "auth", "grpc_svc", "missing"}

KeyError == -1
ValueError == -2
\* close_all left by the exception of an aclose() / close() it awaited.
CloseError == -3

pool_has_never(map, name) == FALSE

\* service_name in self._http_clients / self._grpc_channels
pool_has(map, name) == \E i \in 1..Len(map) : map[i].name = name

pool_lookup(map, name) ==
  map[CHOOSE i \in 1..Len(map) : map[i].name = name].id

\* dict.clear()
cleared_map(map) == <<>>

NewObject(kind, name) == [kind |-> kind, name |-> name, closed |-> 0]

PoolCall(t, op, name, result) == [task |-> t, op |-> op, name |-> name, result |-> result]

\* The body of get_http_client under the lock, for task t.
DoGetHttp(t, name) ==
  IF pool_has(http_clients, name)
  THEN /\ returned' = Append(returned, PoolCall(t, "get_http_client", name,
                                                pool_lookup(http_clients, name)))
       /\ UNCHANGED <<http_clients, objects>>
  ELSE IF name \notin DOMAIN SutServices
  THEN /\ returned' = Append(returned, PoolCall(t, "get_http_client", name, KeyError))
       /\ UNCHANGED <<http_clients, objects>>
  ELSE /\ objects' = Append(objects, NewObject("http", name))
       /\ http_clients' = Append(http_clients, [name |-> name, id |-> Len(objects) + 1])
       /\ returned' = Append(returned, PoolCall(t, "get_http_client", name, Len(objects) + 1))

\* The body of get_grpc_channel under the lock, for task t.
DoGetGrpc(t, name) ==
  IF pool_has(grpc_channels, name)
  THEN /\ returned' = Append(returned, PoolCall(t, "get_grpc_channel", name,
                                                pool_lookup(grpc_channels, name)))
       /\ UNCHANGED <<grpc_channels, objects>>
  ELSE IF name \notin DOMAIN SutServices
  THEN /\ returned' = Append(returned, PoolCall(t, "get_grpc_channel", name, KeyError))
       /\ UNCHANGED <<grpc_channels, objects>>
  ELSE IF SutServices[name] # "grpc"
  THEN /\ returned' = Append(returned, PoolCall(t, "get_grpc_channel", name, ValueError))
       /\ UNCHANGED <<grpc_channels, objects>>
  ELSE /\ objects' = Append(objects, NewObject("grpc", name))
       /\ grpc_channels' = Append(grpc_channels, [name |-> name, id |-> Len(objects) + 1])
       /\ returned' = Append(returned, PoolCall(t, "get_grpc_channel", name, Len(objects) + 1))

lock_after_get_held_on_error(t, result) == IF result < 0 THEN t ELSE 0

\* The holder of the lock when the async with block of a get is left, by
\* its return or by the exception it raises: __aexit__ releases the lock.
lock_after_get(t, result) == 0

\* What a task does once it holds the lock.
UnderLock(t, op, name) ==
  CASE op = "get_http_client" ->
         /\ DoGetHttp(t, name)
         /\ lock_holder' = lock_after_get(t, returned'[Len(returned')].result)
         /\ pc' = [pc EXCEPT ![t] = "idle"]
         /\ UNCHANGED <<grpc_channels, close_pos>>
    [] op = "get_grpc_channel" ->
         /\ DoGetGrpc(t, name)
         /\ lock_holder' = lock_after_get(t, returned'[Len(returned')].result)
         /\ pc' = [pc EXCEPT ![t] = "idle"]
         /\ UNCHANGED <<http_clients, close_pos>>
    [] op = "close_all" ->
         /\ lock_holder' = t
         /\ pc' = [pc EXCEPT ![t] = "close_http"]
         /\ close_pos' = 1
         /\ UNCHANGED <<http_clients, grpc_channels, objects, returned>>

LockFree == lock_holder = 0 /\ waiters = <<>>

\* 2^n
RECURSIVE Pow2(_)
Pow2(n) == IF n = 0 THEN 1 ELSE 2 * Pow2(n - 1)

(***************************************************************************)
(* Python floats (IEEE 754 binary64) for the non-negative values the code  *)
(* computes with them: a float is zero or m * 2^(exp - 52) with a 53-bit   *)
(* mantissa m = hi * 2^26 + lo, 2^52 <= m < 2^53.  Every operation returns *)
(* the exact result rounded to nearest, ties to even.                      *)
(***************************************************************************)
\* 2^27: the number of values of the high 27 bits of a mantissa.
RandomHiScale == 134217728

\* 2^26: the number of values of the low 26 bits of a mantissa.
RandomLoScale == 67108864

\* 2^13: the digits of a long division or product.
LimbScale == 8192

RECURSIVE bit_length(_)
bit_length(n) == IF n = 0 THEN 0 ELSE 1 + bit_length(n \div 2)

Float(hi, lo, exp) == [hi |-> hi, lo |-> lo, exp |-> exp]

FloatZero == Float(0, 0, 0)

\* The next float above x.
float_inc(x) ==
  IF x.lo + 1 < RandomLoScale THEN Float(x.hi, x.lo + 1, x.exp)
  ELSE IF x.hi + 1 < RandomHiScale THEN Float(x.hi + 1, 0, x.exp)
  ELSE Float(RandomLoScale, 0, x.exp + 1)

\* Round to nearest, ties to even: guard is the first bit dropped and sticky
\* says whether a later dropped bit is set.
float_round(x, guard, sticky) ==
  IF guard = 1 /\ (sticky \/ x.lo % 2 = 1) THEN float_inc(x) ELSE x

\* hi * 2^26 + lo shifted right by d bits, with the guard and sticky bits.
shift_right(hi, lo, d) ==
  IF d = 0 THEN [hi |-> hi, lo |-> lo, guard |-> 0, sticky |-> FALSE]
  ELSE IF d <= 26
  THEN [hi |-> hi \div Pow2(d),
        lo |-> (lo \div Pow2(d)) + (hi % Pow2(d)) * Pow2(26 - d),
        guard |-> (lo \div Pow2(d - 1)) % 2,
        sticky |-> lo % Pow2(d - 1) # 0]
  ELSE IF d <= 53
  THEN [hi |-> 0,
        lo |-> hi \div Pow2(d - 26),
        guard |-> (hi \div Pow2(d - 27)) % 2,
        sticky |-> hi % Pow2(d - 27) # 0 \/ lo # 0]
  ELSE [hi |-> 0, lo |-> 0, guard |-> 0, sticky |-> hi # 0 \/ lo # 0]

RECURSIVE div_scale(_, _, _)
\* n and d doubled until d <= n < 2d, with the exponent of the quotient.
div_scale(n, d, exp) ==
  IF n >= 2 * d THEN div_scale(n, 2 * d, exp + 1)
  ELSE IF n < d THEN div_scale(2 * n, d, exp - 1)
  ELSE [n |-> n, d |-> d, exp |-> exp]

\* w / d for integer-valued floats 0 <= w, 0 < d (below 2^17): long division
\* to 53 bits, rounded by the remainder.
float_div(w, d) ==
  IF w = 0 THEN FloatZero
  ELSE LET s == div_scale(w, d, 0)
           r0 == s.n - s.d
           q1 == (r0 * LimbScale) \div s.d
           r1 == (r0 * LimbScale) % s.d
           q2 == (r1 * LimbScale) \div s.d
           r2 == (r1 * LimbScale) % s.d
           q3 == (r2 * LimbScale) \div s.d
           r3 == (r2 * LimbScale) % s.d
           q4 == (r3 * LimbScale) \div s.d
           r4 == (r3 * LimbScale) % s.d
       IN float_round(Float(RandomLoScale + q1 * LimbScale + q2,
                            q3 * LimbScale + q4, s.exp),
                      IF 2 * r4 >= s.d THEN 1 ELSE 0, 2 * r4 > s.d)

\* x + y for x.exp >= y.exp, neither zero.
float_add_ordered(x, y) ==
  LET s == shift_right(y.hi, y.lo, x.exp - y.exp)
      tl == x.lo + s.lo
      th == x.hi + s.hi + tl \div RandomLoScale
      lo == tl % RandomLoScale
  IN IF th < RandomHiScale
     THEN float_round(Float(th, lo, x.exp), s.guard, s.sticky)
     ELSE float_round(Float(th \div 2, (lo \div 2) + (th % 2) * (RandomLoScale \div 2),
                            x.exp + 1),
                      lo % 2, s.guard = 1 \/ s.sticky)

\* x + y
float_add(x, y) ==
  IF x.hi = 0 THEN y
  ELSE IF y.hi = 0 THEN x
  ELSE IF x.exp >= y.exp THEN float_add_ordered(x, y)
  ELSE float_add_ordered(y, x)

\* x * c for an integer-valued float 1 <= c < 2^13: the product digit by
\* digit, then rounded to 53 bits.
float_mul(x, c) ==
  IF x.hi = 0 THEN FloatZero
  ELSE LET p0 == (x.lo % LimbScale) * c
           p1 == (x.lo \div LimbScale) * c + p0 \div LimbScale
           p2 == (x.hi % LimbScale) * c + p1 \div LimbScale
           p3 == (x.hi \div LimbScale) * c + p2 \div LimbScale
           d0 == p0 % LimbScale
           d1 == p1 % LimbScale
           d2 == p2 % LimbScale
           s == bit_length(p3) - 14
           m0 == (d0 \div Pow2(s)) + (d1 % Pow2(s)) * Pow2(13 - s)
           m1 == (d1 \div Pow2(s)) + (d2 % Pow2(s)) * Pow2(13 - s)
           m2 == (d2 \div Pow2(s)) + (p3 % Pow2(s)) * Pow2(13 - s)
           m3 == p3 \div Pow2(s)
       IN float_round(Float(m3 * LimbScale + m2, m1 * LimbScale + m0, x.exp + s),
                      IF s = 0 THEN 0 ELSE (d0 \div Pow2(s - 1)) % 2,
                      s > 0 /\ d0 % Pow2(s - 1) # 0)

\* x < y
float_lt(x, y) ==
  IF y.hi = 0 THEN FALSE
  ELSE IF x.hi = 0 THEN TRUE
  ELSE \/ x.exp < y.exp
       \/ x.exp = y.exp /\ x.hi < y.hi
       \/ x.exp = y.exp /\ x.hi = y.hi /\ x.lo < y.lo

\* x <= y
float_le(x, y) == ~float_lt(y, x)

(***************************************************************************)
(* The decide sub-engine (actions/decide.py): a runner owns a generator    *)
(* random.Random(seed); _weighted_choice draws from it.  The generator is  *)
(* the standard library's Mersenne Twister: a seed fixes the sequence of   *)
(* its 32-bit outputs, of which MTWords tabulates the top 27 bits.  A      *)
(* generator state is the seed and the position of the next output.        *)
(* random() consumes two outputs, a = first >> 5 and b = second >> 6, and  *)
(* returns (a * 2^26 + b) / 2^53; choice(seq) consumes one output per try  *)
(* of _randbelow.  Weights are non-negative integers (units of a common    *)
(* denominator), a weight map is the ordered list of items of the options  *)
(* dict, and a context is the set of items of a dict.                      *)
(***************************************************************************)
\* seed=None: the generator is seeded from the operating system's entropy.
NoSeed == -1

Seeds == {NoSeed, 1, 2}

\* The top 27 bits of the first outputs of random.Random(seed).
MTWords(seed) ==
  CASE seed = 1 ->
    <<18034063, 76397250, 113740630, 107678193,
       102512094, 8470054, 34234785, 15826780,
       66496171, 102134650, 60329669, 63383683,
       87455328, 50951092, 105860656, 28179657>>
    [] seed = 2 ->
    <<128316747, 115844572, 127215251, 113958270,
       7590196, 12292302, 11391326, 48460313,
       112138761, 22694018, 98780219, 108577047,
       89889692, 114599711, 41357375, 33766938>>
    [] seed = 3 ->
    <<31939071, 79542916, 73045210, 17505051,
       49654541, 122936031, 81056775, 63626388,
       83982757, 77960647, 8795134, 81282193,
       1767377, 121979540, 112403197, 62979298>>
    [] seed = 4 ->
    <<31681838, 40708047, 13846710, 96800094,
       53158037, 64273970, 20800026, 12093050,
       8927505, 2659816, 53900633, 73739467,
       123205840, 38839355, 107434895, 132878882>>
    [] seed = 5 ->
    <<83604450, 34285249, 99560964, 48121821,
       106729073, 92670206, 126493535, 112945689,
       99307505, 87514212, 123792365, 71140745,
       3893015, 112789615, 62494814, 104147395>>

seed_states_ignoring_seed(seed) == { [seed |-> NoSeed, pos |-> 1] }

\* random.Random(seed): the generator states a runner can start in.
seed_states(seed) == { [seed |-> seed, pos |-> 1] }

\* The draws followed for a generator seeded by the operating system, as
\* <<a, b>>: 0.0, 0.5, the value after 0.5, and the largest value below 1.
UnseededDraws ==
  { <<0, 0>>, <<RandomHiScale \div 2, 0>>, <<RandomHiScale \div 2, 1>>,
    <<RandomHiScale - 1, RandomLoScale - 1>> }

\* rng.random(): the values <<a, b>> it can return with the generator's new state.
rng_random(state) ==
  IF state.seed = NoSeed
  THEN { [value |-> d, state |-> state] : d \in UnseededDraws }
  ELSE { [value |-> <<MTWords(state.seed)[state.pos],
                      MTWords(state.seed)[state.pos + 1] \div 2>>,
          state |-> [state EXCEPT !.pos = @ + 2]] }

\* getrandbits(k) for k <= 27: the top k bits of the next output.
getrandbits(state, k) == MTWords(state.seed)[state.pos] \div Pow2(27 - k)

RECURSIVE randbelow(_, _)
\* Random._randbelow(n): draw bit_length(n) bits until the value is below n.
randbelow(state, n) ==
  LET r == getrandbits(state, bit_length(n))
      after == [state EXCEPT !.pos = @ + 1]
  IN IF r >= n THEN randbelow(after, n) ELSE [value |-> r, state |-> after]

\* rng.choice(seq) over a list of n elements: the 1-based positions it can
\* return with the generator's new state.
rng_choice(state, n) ==
  IF state.seed = NoSeed
  THEN { [value |-> i, state |-> state] : i \in 1..n }
  ELSE { [value |-> randbelow(state, n).value + 1,
          state |-> randbelow(state, n).state] }

WeightMaps ==
  { w \in UNION { [1..n -> [name : DecideOptions, weight : 0..MaxWeight]] :
                   n \in 0..Cardinality(DecideOptions) } :
      \A i, j \in 1..Len(w) : w[i].name = w[j].name => i = j }

RECURSIVE SumWeights(_, _)
\* sum of the first n weights, in dict order
SumWeights(options, n) ==
  IF n = 0 THEN 0 ELSE SumWeights(options, n - 1) + options[n].weight

RECURSIVE cumulative_weight(_, _, _)
\* cumulative after n turns of the loop: from 0.0, cumulative += weight for
\* the normalized weights v / total.
cumulative_weight(options, total, n) ==
  IF n = 0 THEN FloatZero
  ELSE float_add(cumulative_weight(options, total, n - 1),
                 float_div(options[n].weight, total))

\* r <= cumulative for r = (a * 2^26 + b) / 2^53 < 1: the integer r * 2^53
\* is at most the integer part of cumulative * 2^53.
draw_le(value, cumulative) ==
  IF cumulative.hi = 0 THEN value[1] = 0 /\ value[2] = 0
  ELSE IF cumulative.exp >= 0 THEN TRUE
  ELSE LET c == shift_right(cumulative.hi, cumulative.lo, -(cumulative.exp + 1))
       IN \/ value[1] < c.hi
          \/ value[1] = c.hi /\ value[2] <= c.lo

\* The loop of _weighted_choice with draw r: the first option whose
\* cumulative normalized weight is at least r, else the last.
cumulative_pick(options, value) ==
  LET total == SumWeights(options, Len(options))
      hits == { i \in 1..Len(options) :
                  draw_le(value, cumulative_weight(options, total, i)) }
  IN IF hits # {}
     THEN options[CHOOSE i \in hits : \A j \in hits : i <= j].name
     ELSE options[Len(options)].name

\* DecideActionRunner._weighted_choice on a generator state: ValueError on an
\* empty map, a uniform rng.choice when the total is not positive, else the
\* cumulative-threshold selection.  drawn is the value of r, or <<>> when
\* random() was not called.
weighted_choice(options, state) ==
  IF Len(options) = 0
  THEN { [raised |-> TRUE, choice |-> "", drawn |-> <<>>, state |-> state] }
  ELSE IF SumWeights(options, Len(options)) <= 0
  THEN { [raised |-> FALSE, choice |-> options[c.value].name, drawn |-> <<>>,
          state |-> c.state] : c \in rng_choice(state, Len(options)) }
  ELSE { [raised |-> FALSE, choice |-> cumulative_pick(options, r.value),
          drawn |-> r.value, state |-> r.state] : r \in rng_random(state) }

(***************************************************************************)
(* The scenario runner.                                                    *)
(***************************************************************************)
SkipObservation(action) ==
  [ok |-> TRUE, protocol |-> "None", status_code |-> 0, headers |-> "", body |-> "",
   latency_ms |-> 0, branch_condition |-> action.condition, branch_result |-> "False",
   branch_taken |-> "None", condition_skipped |-> TRUE]

BranchObservation(action, decision) ==
  [ok |-> TRUE, protocol |-> "None", status_code |-> 0, headers |-> "", body |-> "",
   latency_ms |-> 0, branch_condition |-> action.condition,
   branch_result |-> BoolStr(decision),
   branch_taken |-> IF decision THEN "if_true" ELSE "if_false",
   condition_skipped |-> FALSE]

\* The child list _execute_branch walks; side 1 is if_true, side 0 is if_false.
branch_actions(action, decision) ==
  IF decision THEN [side |-> 1, actions |-> action.if_true]
              ELSE [side |-> 0, actions |-> action.if_false]

ShouldSkip_inverted(action, context) ==
  /\ action.condition # ""
  /\ action.kind # "branch"
  /\ evaluate_safe(action.condition, context, TRUE)

ShouldSkip(action, context) ==
  /\ action.condition # ""
  /\ action.kind # "branch"
  /\ ~evaluate_safe(action.condition, context, TRUE)

\* context["last_response"] = {...}: the items of the dict after the
\* assignment; the dict is the same object.
update_last_response(context, observation) ==
  [context EXCEPT !.has_last = TRUE,
                  !.last_response = [status_code |-> observation.status_code,
                                     headers |-> observation.headers,
                                     body |-> observation.body]]

\* A reference, once the runner has returned a new dict: it refers to a dict
\* that is no longer the current one.
superseded(held) == [held EXCEPT !.current = FALSE]

\* What a reference held before the call shows once runner.execute has
\* returned and the generator's context is the dict returned, showing the
\* items of context: these items when the runner returned the dict it was
\* given and the reference is to that dict (an assignment in place to
\* last_response shows through it), what it showed before otherwise.
deref(held, same_dict, context) ==
  IF held.current /\ same_dict THEN context ELSE superseded(held)

tuples_deref(tuples, same_dict, context) ==
  [i \in 1..Len(tuples) |->
     [tuples[i] EXCEPT !.context = deref(tuples[i].context, same_dict, context)]]

\* The frames once runner.execute has returned: every reference that the
\* suspended and the running generators hold, which are the variable context
\* of each generator, the tuples collected in the results of _execute_branch
\* and the tuples of branch_results not yet forwarded.
held_after_return(fr, same_dict, context) ==
  [k \in 1..Len(fr) |->
     [fr[k] EXCEPT !.context = deref(fr[k].context, same_dict, context),
                   !.results = tuples_deref(fr[k].results, same_dict, context),
                   !.pending = tuples_deref(fr[k].pending, same_dict, context)]]

UpdatesLastResponse(action) == action.kind \in {"http", "wait"}

HasService(action) == action.kind \in {"http", "wait", "grpc"}

\* template_engine.render_dict(action.model_dump(), context): every string of
\* the action is rendered, its condition included, and a template that names
\* a missing context key raises TemplateError.
TemplateRaises(action, context) == action.condition = "last_ok" /\ ~has_status(context)

\* _render_action raises TemplateError from the rendering, and ValueError for
\* a GrpcAction, for which it has no case.
RenderRaises(action, context) ==
  \/ TemplateRaises(action, context)
  \/ action.kind \notin {"http", "wait", "assert", "branch", "decide"}

\* What runner.execute does: it returns (observation, context), or raises.
\* same_dict tells whether the context returned is the dict it was given.
Result(observation, context) ==
  [observation |-> observation, context |-> context, raised |-> "None", same_dict |-> TRUE]

\* The result whose context is a new dict with the items of result.context.
NewDict(result) == [result EXCEPT !.same_dict = FALSE]

\* The seed the executor gives the ScenarioRunner of instance i.
runner_seed(run_seed, i) == run_seed + i

\* The seeds runners are built with: none, or the seed of an instance.
RunnerSeeds ==
  {NoSeed} \cup { runner_seed(seed, i) : seed \in Seeds \ {NoSeed}, i \in 1..MaxDetInstances }

\* _weighted_choice on a new generator random.Random(seed), for the option
\* maps of the scenarios' policies and the seeds of their runners, as an
\* explicit table (f @@ <<>> is f).
weighted_choices ==
  [c \in [options : {EqualWeights, <<>>}, seed : RunnerSeeds] |->
     UNION { weighted_choice(c.options, g) : g \in seed_states(c.seed) }] @@ <<>>

\* The decide runner built without the runner's seed: random.Random(None).
DecideResults_unseeded(pol, action, context) ==
  IF pol \in {"known", "empty"}
  THEN { IF w.raised
         THEN [observation |-> Observation(FALSE, "decide", 0, "", ""),
               context |-> context, raised |-> "ValueError", same_dict |-> TRUE]
         ELSE NewDict(Result(Observation(TRUE, "decide", 0, "", w.choice),
                             context_set(context, action_output_var(action), w.choice))) :
         w \in weighted_choices[[options |-> IF pol = "known" THEN policy.options ELSE <<>>,
                                  seed |-> NoSeed]] }
  ELSE { Result(Observation(FALSE, "decide", 0, "", ""), context) }

\* DecideActionRunner(action, policy, seed=self.seed).execute(context): a
\* failing observation without a policy that holds the decision; else the
\* choice of _weighted_choice on a new generator random.Random(seed), written
\* to the context under the action's output_var, or the ValueError it
\* raises on an empty option map.
DecideResults(pol, action, context) ==
  IF pol \in {"known", "empty"}
  THEN { IF w.raised
         THEN [observation |-> Observation(FALSE, "decide", 0, "", ""),
               context |-> context, raised |-> "ValueError", same_dict |-> TRUE]
         ELSE NewDict(Result(Observation(TRUE, "decide", 0, "", w.choice),
                             context_set(context, action_output_var(action), w.choice))) :
         w \in weighted_choices[[options |-> IF pol = "known" THEN policy.options ELSE <<>>,
                                  seed |-> scenario.seed]] }
  ELSE { Result(Observation(FALSE, "decide", 0, "", ""), context) }

\* AssertActionRunner.execute with the expectation status_code == 200.
AssertResults(context) ==
  { Result(Observation(has_status(context) /\ context.last_response.status_code = 200,
                       "assert", 0, "", ""),
           context) }

\* The HTTP and wait runner calls made so far, in execution order.
NetworkCalls == SelectSeq(runner_calls, LAMBDA c : c.kind \in {"http", "wait"})

\* What the network answers the next request with: any outcome, or, with a
\* mocked network, the next status of its transcript.
NetworkStatuses ==
  IF scenario.transcript = <<>>
  THEN NetworkOutcomes
  ELSE { scenario.transcript[IF Len(NetworkCalls) < Len(scenario.transcript)
                             THEN Len(NetworkCalls) + 1
                             ELSE Len(scenario.transcript)] }

\* HttpActionRunner.execute / WaitActionRunner.execute against the network.
\* The context of the pair it returns is the dict it was given (as
\* GrpcActionRunner.execute returns it) or a new dict with the same items.
NetworkResults(context) ==
  UNION { {Result(HttpResponse(s), context), NewDict(Result(HttpResponse(s), context))} :
            s \in NetworkStatuses }

RunnerResults(action, pol, context) ==
  CASE action.kind = "decide" -> DecideResults(pol, action, context)
    [] action.kind = "assert" -> AssertResults(context)
    [] OTHER -> NetworkResults(context)

\* The policy _execute_action hands to the decide runner: the one policy_ref
\* names if it is loaded, else the first loaded policy, else none.  The
\* result is "known" for a policy that holds the decision with options,
\* "empty" for one that holds it with an empty option map, "unknown" for one
\* that does not hold it, "none" when no policy is passed.
LoadedPolicy(name, decision) == [name |-> name, decision |-> decision]

decide_policy(pol) ==
  IF pol.ref # "" /\ \E i \in 1..Len(pol.loaded) : pol.loaded[i].name = pol.ref
  THEN pol.loaded[CHOOSE i \in 1..Len(pol.loaded) : pol.loaded[i].name = pol.ref].decision
  ELSE IF pol.loaded # <<>>
       THEN pol.loaded[1].decision
       ELSE "none"

\* How the runner's execute is reached: through TurbulenceEngine.apply when
\* the action is an HttpAction, an engine is configured and a policy resolves
\* for (service, action name); directly otherwise.
invoked_via(action) ==
  IF action.kind = "http" /\ scenario.turbulence = "policy" THEN "apply" ELSE "direct"

\* for action in actions: the position of the next action of the list.
next_pos_stuck(pos) == pos

next_pos(pos) == pos + 1

\* The context the nested generator of a branch starts from.
nested_context_fresh(context) == InitialContext

nested_context(context) == context

\* The delay before a non-skipped action at index idx, in milliseconds.
total_delay_ms(idx) ==
  (IF idx > 0 THEN scenario.step_delay_ms ELSE 0) + scenario.jitter_ms

\* asyncio.sleep(total_delay_ms / 1000.0): the sleep that is started.
DelaySleep(path, idx) ==
  Append(delays, [path |-> path, idx |-> idx, ms |-> total_delay_ms(idx)])

Visit(path, kind, seen, out) == [path |-> path, kind |-> kind, seen |-> seen, out |-> out]

Tuple(step_index, path, action, observation, context) ==
  [step_index |-> step_index, path |-> path, kind |-> action.kind,
   observation |-> observation, context |-> context]

NoObservation == Observation(TRUE, "None", 0, "", "")

Frame(actions, context, start_index, path, obs) ==
  [actions |-> actions, pos |-> 1, idx |-> start_index, context |-> context,
   results |-> <<>>, pending |-> <<>>, path |-> path, obs |-> obs]

Depth == Len(frames)
Top == frames[Depth]
Cur == Top.actions[Top.pos]
CurPath == Top.path \o <<Top.pos>>

\* The flow's generator is suspended at a yield to the consumer of
\* execute_flow: of a tuple of its own action ("yield") or of a tuple of
\* branch_results ("yield_nested").
AtYield == awaiting \in {"yield", "yield_nested"}

AtAction ==
  /\ status = "running"
  /\ ~AtYield
  /\ Top.pending = <<>>
  /\ Top.pos <= Len(Top.actions)

\* The consumer loop of execute_flow after a yield: the state of the iteration
\* once steps tuples have been emitted, the last one with observation.ok = ok.
stop_check_no_fail_stop(steps, ok) ==
  IF steps >= scenario.max_steps THEN "max_steps" ELSE "running"

stop_check_off_by_one(steps, ok) ==
  IF steps > scenario.max_steps THEN "max_steps"
  ELSE IF ~ok /\ scenario.any_action_fails THEN "failed"
  ELSE "running"

stop_check(steps, ok) ==
  IF steps >= scenario.max_steps THEN "max_steps"
  ELSE IF ~ok /\ scenario.any_action_fails THEN "failed"
  ELSE "running"

\* The statements of _execute_actions_recursive after a yield, which run
\* when the generator is resumed: idx += 1 and the next action after a tuple
\* of the list's own action, the next turn of the loop over branch_results
\* after a forwarded tuple.
resumed(fr, k, at) ==
  IF at = "yield"
  THEN [fr EXCEPT ![k].idx = @ + 1, ![k].pos = next_pos(@)]
  ELSE [fr EXCEPT ![k].pending = Tail(@)]

\* One yield of the generator at level k, whose frames are fr when it
\* yields.  At level 1 the tuple goes to the consumer of execute_flow and the
\* generator stays suspended until the consumer asks for the next tuple; at
\* a deeper level the consumer is the loop of _execute_branch, which appends
\* the tuple to its results and resumes the generator at once.
Yield(fr, k, t, at) ==
  IF k = 1
  THEN /\ frames' = fr
       /\ emitted' = Append(emitted, t)
       /\ awaiting' = at
       /\ UNCHANGED <<steps_executed, status>>
  ELSE /\ frames' = [resumed(fr, k, at) EXCEPT ![k].results = Append(@, t)]
       /\ awaiting' = "nothing"
       /\ UNCHANGED <<emitted, steps_executed, status>>

\* The runner is a task of the event loop like the tasks that share the
\* ClientPool; it is not one of Tasks.
RunnerTask == 0

\* The service of the scenarios' HTTP and wait actions.
RunnerService == "api"

\* The delay before the current action is over: there was none, or the
\* sleep has returned.
PastDelay ==
  \/ awaiting = "sleep"
  \/ awaiting = "nothing" /\ total_delay_ms(Top.idx) = 0

SkipAction ==
  /\ AtAction
  /\ awaiting = "nothing"
  /\ ShouldSkip(Cur, Top.context)
  /\ LET k == Depth
         t == Tuple(Top.idx, CurPath, Cur, SkipObservation(Cur), Top.context)
     IN Yield(frames, k, t, "yield")
  /\ visits' = Append(visits, Visit(CurPath, Cur.kind, Top.context, Top.context))
  /\ UNCHANGED <<scenario, policy, runner_calls, client_gets, branch_evals, delays>>
  /\ UNCHANGED notRunnerVars

\* await asyncio.sleep(...) before a non-skipped action: the runner is
\* suspended and other tasks run.
StartDelay ==
  /\ AtAction
  /\ awaiting = "nothing"
  /\ ~ShouldSkip(Cur, Top.context)
  /\ total_delay_ms(Top.idx) > 0
  /\ delays' = DelaySleep(CurPath, Top.idx)
  /\ awaiting' = "sleep"
  /\ UNCHANGED <<scenario, policy, frames, emitted, steps_executed, status,
                 runner_calls, client_gets, branch_evals, visits>>
  /\ UNCHANGED notRunnerVars

\* _execute_action up to the await of runner.execute: the action is rendered
\* and client_pool.get_http_client is awaited.  With the pool's lock free the
\* client is looked up or created at once; otherwise the runner waits in the
\* lock's queue and takes this step again when the lock is released to it.
GetClient ==
  /\ AtAction
  /\ ~ShouldSkip(Cur, Top.context)
  /\ Cur.kind # "branch"
  /\ ~RenderRaises(Cur, Top.context)
  /\ HasService(Cur)
  /\ IF awaiting = "lock"
     THEN lock_holder = 0 /\ waiters # <<>> /\ Head(waiters).task = RunnerTask
     ELSE PastDelay
  /\ IF awaiting # "lock" /\ ~LockFree
     THEN /\ waiters' = Append(waiters, [task |-> RunnerTask, op |-> "get_http_client",
                                         name |-> RunnerService])
          /\ awaiting' = "lock"
          /\ UNCHANGED <<http_clients, objects, returned, lock_holder>>
     ELSE /\ DoGetHttp(RunnerTask, RunnerService)
          /\ lock_holder' = lock_after_get(RunnerTask, returned'[Len(returned')].result)
          /\ waiters' = IF awaiting = "lock" THEN Tail(waiters) ELSE waiters
          /\ awaiting' = "runner"
  /\ client_gets' = IF awaiting = "lock" THEN client_gets ELSE Append(client_gets, CurPath)
  /\ UNCHANGED <<scenario, policy, frames, emitted, steps_executed, status,
                 runner_calls, branch_evals, visits, delays>>
  /\ UNCHANGED <<grpc_channels, pc, close_pos, pool_calls>>
  /\ UNCHANGED notRunnerPoolVars

\* runner.execute returns: last_response is updated and the tuple is yielded.
\* An action without a service has nothing to await before its runner, and
\* the decide and assert runners do not suspend.  The update assigns to the
\* dict the runner returned (lines 184-185, 351-355): when that is the dict
\* the runner was given, the tuples yielded before with this dict show the
\* new last_response.  A tuple in emitted is kept as the consumer received
\* it.
ExecuteAction ==
  /\ AtAction
  /\ ~ShouldSkip(Cur, Top.context)
  /\ Cur.kind # "branch"
  /\ ~RenderRaises(Cur, Top.context)
  /\ IF HasService(Cur) THEN awaiting = "runner" ELSE PastDelay
  /\ \E r \in RunnerResults(Cur, decide_policy(policy), Top.context) :
       /\ r.raised = "None"
       /\ LET k == Depth
              context == IF UpdatesLastResponse(Cur)
                         THEN update_last_response(r.context, r.observation)
                         ELSE r.context
              t == Tuple(Top.idx, CurPath, Cur, r.observation, context)
              fr == [held_after_return(frames, r.same_dict, context)
                       EXCEPT ![k].context = context]
          IN /\ Yield(fr, k, t, "yield")
             /\ runner_calls' = Append(runner_calls,
                    [path |-> CurPath, kind |-> Cur.kind, observation |-> r.observation,
                     via |-> invoked_via(Cur)])
             /\ visits' = Append(visits, Visit(CurPath, Cur.kind, Top.context, context))
  /\ UNCHANGED <<scenario, policy, client_gets, branch_evals, delays>>
  /\ UNCHANGED notRunnerVars

\* An exception leaves _execute_action and execute_flow: _render_action
\* raises, or the runner's execute does.
RaiseAction ==
  /\ AtAction
  /\ ~ShouldSkip(Cur, Top.context)
  /\ Cur.kind # "branch"
  /\ PastDelay
  /\ (\/ RenderRaises(Cur, Top.context)
      \/ /\ ~HasService(Cur)
         /\ \E r \in RunnerResults(Cur, decide_policy(policy), Top.context) :
              r.raised # "None")
  /\ status' = "raised"
  /\ awaiting' = "nothing"
  /\ UNCHANGED <<scenario, policy, frames, emitted, steps_executed,
                 runner_calls, client_gets, branch_evals, visits, delays>>
  /\ UNCHANGED notRunnerVars

EnterBranch ==
  /\ AtAction
  /\ Cur.kind = "branch"
  /\ PastDelay
  /\ LET decision == evaluate_safe(Cur.condition, Top.context, FALSE)
         chosen == branch_actions(Cur, decision)
         child == Frame(chosen.actions, nested_context(Top.context), 0,
                        CurPath \o <<chosen.side>>,
                        BranchObservation(Cur, decision))
     IN /\ frames' = Append(frames, child)
        /\ branch_evals' = branch_evals \cup
              {[path |-> CurPath, context |-> Top.context]}
  /\ visits' = Append(visits, Visit(CurPath, Cur.kind, Top.context, Top.context))
  /\ awaiting' = "nothing"
  /\ UNCHANGED <<scenario, policy, emitted, steps_executed, status,
                 runner_calls, client_gets, delays>>
  /\ UNCHANGED notRunnerVars

ReturnBranch ==
  /\ status = "running"
  /\ ~AtYield
  /\ Depth > 1
  /\ Top.pending = <<>>
  /\ Top.pos > Len(Top.actions)
  /\ LET k == Depth - 1
         child == Top
         parent == frames[k]
         t == Tuple(parent.idx, parent.path \o <<parent.pos>>,
                    parent.actions[parent.pos], child.obs, child.context)
         fr == [SubSeq(frames, 1, k) EXCEPT ![k].context = child.context,
                                           ![k].pending = child.results]
     IN Yield(fr, k, t, "yield")
  /\ UNCHANGED <<scenario, policy, runner_calls, client_gets, branch_evals,
                 visits, delays>>
  /\ UNCHANGED notRunnerVars

ForwardResult ==
  /\ status = "running"
  /\ ~AtYield
  /\ Top.pending # <<>>
  /\ LET k == Depth
         r == Head(Top.pending)
         fr == [frames EXCEPT ![k].context = r.context]
     IN Yield(fr, k, r, "yield_nested")
  /\ UNCHANGED <<scenario, policy, runner_calls, client_gets, branch_evals,
                 visits, delays>>
  /\ UNCHANGED notRunnerVars

\* The consumer asks execute_flow for the next tuple: the step is counted
\* and the stop conditions are applied (lines 103-113); unless one of them
\* breaks the loop, the generator of the flow goes on after its yield.
ResumeFlow ==
  /\ status = "running"
  /\ AtYield
  /\ steps_executed' = steps_executed + 1
  /\ status' = stop_check(steps_executed + 1, emitted[Len(emitted)].observation.ok)
  /\ frames' = IF status' = "running" THEN resumed(frames, 1, awaiting) ELSE frames
  /\ awaiting' = "nothing"
  /\ UNCHANGED <<scenario, policy, emitted, runner_calls, client_gets, branch_evals,
                 visits, delays>>
  /\ UNCHANGED notRunnerVars

FinishFlow ==
  /\ status = "running"
  /\ ~AtYield
  /\ Depth = 1
  /\ Top.pending = <<>>
  /\ Top.pos > Len(Top.actions)
  /\ status' = "done"
  /\ UNCHANGED <<scenario, policy, frames, emitted, steps_executed, awaiting,
                 runner_calls, client_gets, branch_evals, visits, delays>>
  /\ UNCHANGED notRunnerVars

ExecIdle ==
  /\ run = [instances |-> 0, parallelism |-> 0, branches |-> FALSE]
  /\ permits = 0
  /\ task = <<>>
  /\ step_records = <<>>
  /\ assertion_records = <<>>
  /\ instance_records = <<>>
  /\ run_steps = 0
  /\ sink = "idle"

RetryIdle ==
  /\ retry = [max_attempts |-> 1, on_status |-> {}, on_timeout |-> FALSE,
              on_connection_error |-> FALSE, backoff |-> "fixed",
              delay_ms |-> 0, base_delay_ms |-> 0]
  /\ request_log = <<>>
  /\ attempts = <<>>
  /\ sleeps = <<>>
  /\ observations = <<>>
  /\ phase = "idle"

DetIdle ==
  /\ det = [seed |-> 0, flow |-> <<>>, transcript |-> <<>>]
  /\ det_run = [run |-> 0, current |-> 0, ended |-> <<>>]
  /\ det_tasks = <<>>
  /\ det_records = <<>>

GrpcIdle ==
  /\ grpc_action = [service |-> "", method_has_slash |-> FALSE, extract |-> FALSE]
  /\ runner_channel = "None"
  /\ grpc_env = <<>>
  /\ grpc_context = {}
  /\ grpc_passed = {}
  /\ grpc_result = [state |-> "idle"]

FactoryIdle ==
  /\ factory_runners = {}
  /\ registrations = <<>>
  /\ created = <<>>

GateIdle ==
  /\ threshold = [metric |-> "", operator |-> "", value |-> 0]
  /\ summary = 0
  /\ gate_result = [state |-> "idle"]

\* Both writers as constructed: no JSONLWriter, no connection, nothing stored.
StorageIdle ==
  /\ jsonl = [writers |-> "None", manifest |-> "None",
              instances |-> <<>>, steps |-> <<>>, assertions |-> <<>>]
  /\ sqlite = [conn |-> "None", runs |-> {},
               instances |-> {}, steps |-> <<>>, assertions |-> <<>>]
  /\ storage_calls = <<>>
  /\ jsonl_direct = 0

\* The components added after the executor and the runner are at rest.
OthersIdle == GrpcIdle /\ FactoryIdle /\ GateIdle /\ StorageIdle

PoolIdle ==
  /\ http_clients = <<>>
  /\ grpc_channels = <<>>
  /\ lock_holder = 0
  /\ waiters = <<>>
  /\ pc = <<>>
  /\ close_pos = 0
  /\ objects = <<>>
  /\ returned = <<>>
  /\ pool_calls = 0

DecideIdle ==
  /\ dec = [seed |-> 0, options |-> <<>>, policy |-> "none",
            context |-> {}, output_var |-> "decision_result"]
  /\ rng = <<>>
  /\ choices = <<(<<>>), (<<>>)>>
  /\ dec_raised = {}
  /\ executions = <<>>

\* execute_flow has been called and has executed nothing yet.
RunnerStart ==
  /\ frames = <<Frame(scenario.flow, InitialContext, 0, <<>>, NoObservation)>>
  /\ emitted = <<>>
  /\ steps_executed = 0
  /\ status = "running"
  /\ awaiting = "nothing"
  /\ runner_calls = <<>>
  /\ client_gets = <<>>
  /\ branch_evals = {}
  /\ visits = <<>>
  /\ delays = <<>>

Init ==
  /\ ExecIdle
  /\ RetryIdle
  /\ DecideIdle
  /\ PoolIdle
  /\ DetIdle
  /\ OthersIdle
  /\ scenario \in [flow : Flows, max_steps : MaxStepsValues, any_action_fails : BOOLEAN,
                    step_delay_ms : {0}, jitter_ms : {0}, turbulence : {"none"},
                    seed : {NoSeed}, transcript : {<<>>}]
  /\ policy \in { [ref |-> "", loaded |-> <<>>, options |-> EqualWeights],
                   [ref |-> "p", loaded |-> <<LoadedPolicy("p", "known")>>, options |-> EqualWeights],
                   [ref |-> "p", loaded |-> <<LoadedPolicy("p", "unknown")>>, options |-> EqualWeights],
                   [ref |-> "p", loaded |-> <<LoadedPolicy("p", "empty")>>, options |-> EqualWeights] }
  /\ RunnerStart

Next ==
  \/ SkipAction
  \/ GetClient
  \/ ExecuteAction
  \/ RaiseAction
  \/ EnterBranch
  \/ ReturnBranch
  \/ ForwardResult
  \/ ResumeFlow
  \/ FinishFlow

Spec == Init /\ [][Next]_vars

\* Every runner invocation returns and the consumer keeps iterating: while a
\* step of the runner is possible, one is taken.
SpecFair == Init /\ [][Next]_vars /\ WF_vars(Next)

\* Entries whose variation data carry _step_delay_ms and _timing_jitter_ms.
TimedNodes ==
  { Leaf("http", ""), Leaf("http", "false"), Leaf("decide", ""), Leaf("grpc", ""),
    BranchAction("true", <<Leaf("http", "")>>, <<Leaf("wait", "")>>),
    BranchAction("last_ok", <<Leaf("http", ""), InnerBranch>>, <<Leaf("assert", "false")>>) }

Variations ==
  { [step_delay_ms |-> 0, jitter_ms |-> 0], [step_delay_ms |-> 10, jitter_ms |-> 0],
    [step_delay_ms |-> 0, jitter_ms |-> 5], [step_delay_ms |-> 10, jitter_ms |-> 5] }

InitTimed ==
  /\ ExecIdle
  /\ RetryIdle
  /\ DecideIdle
  /\ PoolIdle
  /\ DetIdle
  /\ OthersIdle
  /\ \E flow \in UNION { [1..n -> TimedNodes] : n \in 0..MaxFlowLen } :
       \E v \in Variations :
         scenario = [flow |-> flow, max_steps |-> DefaultMaxSteps,
                     any_action_fails |-> FALSE,
                     step_delay_ms |-> v.step_delay_ms, jitter_ms |-> v.jitter_ms,
                     turbulence |-> "none",
                 seed |-> NoSeed, transcript |-> <<>>]
  /\ policy = [ref |-> "p", loaded |-> <<LoadedPolicy("p", "known")>>, options |-> EqualWeights]
  /\ RunnerStart

\* The runner with the sleeps its entry asks for.
NextTimed == StartDelay \/ Next

SpecTimed == InitTimed /\ [][NextTimed]_vars

\* Runners built with a turbulence engine and a set of loaded policies.
EngineNodes ==
  { Leaf("http", ""), Leaf("wait", ""), Leaf("decide", ""), Leaf("grpc", ""),
    Leaf("http", "false"),
    BranchAction("true", <<Leaf("http", "")>>, <<Leaf("wait", "")>>) }

PolicyConfigs ==
  { [ref |-> "", loaded |-> <<>>, options |-> EqualWeights],
    [ref |-> "", loaded |-> <<LoadedPolicy("p", "known")>>, options |-> EqualWeights],
    [ref |-> "p", loaded |-> <<LoadedPolicy("q", "unknown"), LoadedPolicy("p", "known")>>, options |-> EqualWeights],
    [ref |-> "ghost", loaded |-> <<>>, options |-> EqualWeights],
    [ref |-> "ghost", loaded |-> <<LoadedPolicy("p", "known")>>, options |-> EqualWeights],
    [ref |-> "ghost", loaded |-> <<LoadedPolicy("q", "unknown")>>, options |-> EqualWeights] }

InitEngine ==
  /\ ExecIdle
  /\ RetryIdle
  /\ DecideIdle
  /\ PoolIdle
  /\ DetIdle
  /\ OthersIdle
  /\ \E flow \in UNION { [1..n -> EngineNodes] : n \in 0..MaxFlowLen } :
       \E t \in {"none", "no_policy", "policy"} :
         scenario = [flow |-> flow, max_steps |-> DefaultMaxSteps,
                     any_action_fails |-> FALSE, step_delay_ms |-> 0, jitter_ms |-> 0,
                     turbulence |-> t,
                 seed |-> NoSeed, transcript |-> <<>>]
  /\ policy \in PolicyConfigs
  /\ RunnerStart

SpecEngine == InitEngine /\ [][Next]_vars

RunnerIdle ==
  /\ scenario = [flow |-> <<>>, max_steps |-> DefaultMaxSteps, any_action_fails |-> FALSE,
                 step_delay_ms |-> 0, jitter_ms |-> 0, turbulence |-> "none",
                 seed |-> NoSeed, transcript |-> <<>>]
  /\ policy = [ref |-> "", loaded |-> <<>>, options |-> EqualWeights]
  /\ frames = <<Frame(<<>>, InitialContext, 0, <<>>, NoObservation)>>
  /\ emitted = <<>>
  /\ steps_executed = 0
  /\ status = "idle"
  /\ awaiting = "nothing"
  /\ runner_calls = <<>>
  /\ client_gets = <<>>
  /\ branch_evals = {}
  /\ visits = <<>>
  /\ delays = <<>>

(***************************************************************************)
(* The parallel executor (spec section 4.14): N instance tasks dispatched  *)
(* under a counting semaphore of `parallelism` permits.  Each task writes  *)
(* a StepRecord per emitted tuple, the AssertionRecords of assert steps,   *)
(* and one InstanceRecord when the instance ends or raises.                *)
(***************************************************************************)
Instances == 1..run.instances

\* The semaphore lets a task in only while a permit is left.
can_acquire_unbounded(p) == TRUE

can_acquire(p) == p > 0

And(bools) == \A i \in 1..Len(bools) : bools[i]

\* passed of an instance that ended without an exception.
instance_passed_assertions_only(steps, assertions) == And(assertions)

instance_passed(steps, assertions) ==
  /\ \A i \in 1..Len(steps) : steps[i].ok
  /\ And(assertions)

\* The checks an assert step can emit: one AssertionRecord per check.
AssertionOutcomes == { <<TRUE>>, <<FALSE>>, <<TRUE, FALSE>> }

StartInstance(i) ==
  /\ sink = "open"
  /\ task[i] = "waiting"
  /\ can_acquire(permits)
  /\ permits' = permits - 1
  /\ task' = [task EXCEPT ![i] = "running"]
  /\ UNCHANGED <<run, step_records, assertion_records, instance_records, run_steps, sink>>
  /\ UNCHANGED notExecVars

\* The step_index values execute_flow can attach to the tuple it emits after
\* n earlier ones.  A flow without branches counts its tuples; under a branch
\* the nested list counts from 0 again and the parent list counts its own
\* nodes only, so the index can be any value up to n.
tuple_indexes(n) == IF run.branches THEN 0..n ELSE {n}

WriteStep(i) ==
  /\ task[i] = "running"
  /\ run_steps < MaxRunSteps
  /\ \E ok \in BOOLEAN, idx \in tuple_indexes(Len(step_records[i])) :
       step_records' = [step_records EXCEPT ![i] =
           Append(@, [step_index |-> idx, step_type |-> "http", ok |-> ok])]
  /\ run_steps' = run_steps + 1
  /\ UNCHANGED <<run, permits, task, assertion_records, instance_records, sink>>
  /\ UNCHANGED notExecVars

WriteAssertStep(i) ==
  /\ task[i] = "running"
  /\ run_steps < MaxRunSteps
  /\ \E checks \in AssertionOutcomes, idx \in tuple_indexes(Len(step_records[i])) :
       /\ step_records' = [step_records EXCEPT ![i] =
             Append(@, [step_index |-> idx, step_type |-> "assert", ok |-> And(checks)])]
       /\ assertion_records' = [assertion_records EXCEPT ![i] = @ \o checks]
  /\ run_steps' = run_steps + 1
  /\ UNCHANGED <<run, permits, task, instance_records, sink>>
  /\ UNCHANGED notExecVars

CompleteInstance(i) ==
  /\ task[i] = "running"
  /\ instance_records' = [instance_records EXCEPT ![i] =
        Append(@, [passed |-> instance_passed(step_records[i], assertion_records[i]),
                   error |-> "None"])]
  /\ task' = [task EXCEPT ![i] = "done"]
  /\ permits' = permits + 1
  /\ UNCHANGED <<run, step_records, assertion_records, run_steps, sink>>
  /\ UNCHANGED notExecVars

\* The exception escapes the instance boundary and ends the run.
FailInstance_aborts_run(i) ==
  /\ task[i] = "running"
  /\ sink' = "closed"
  /\ task' = [task EXCEPT ![i] = "done"]
  /\ permits' = permits + 1
  /\ UNCHANGED <<run, step_records, assertion_records, instance_records, run_steps>>
  /\ UNCHANGED notExecVars

\* An exception inside the instance is caught at the instance boundary.
FailInstance(i) ==
  /\ task[i] = "running"
  /\ instance_records' = [instance_records EXCEPT ![i] =
        Append(@, [passed |-> FALSE, error |-> "exception"])]
  /\ task' = [task EXCEPT ![i] = "done"]
  /\ permits' = permits + 1
  /\ UNCHANGED <<run, step_records, assertion_records, run_steps, sink>>
  /\ UNCHANGED notExecVars

CloseRun ==
  /\ sink = "open"
  /\ \A i \in Instances : task[i] = "done"
  /\ sink' = "closed"
  /\ UNCHANGED <<run, permits, task, step_records, assertion_records, instance_records,
                 run_steps>>
  /\ UNCHANGED notExecVars

\* The run is dispatched: every instance task waits for a permit and the
\* storage sink is initialized.
ExecStart ==
  /\ permits = run.parallelism
  /\ task = [i \in Instances |-> "waiting"]
  /\ step_records = [i \in Instances |-> <<>>]
  /\ assertion_records = [i \in Instances |-> <<>>]
  /\ instance_records = [i \in Instances |-> <<>>]
  /\ run_steps = 0
  /\ sink = "open"

InitExec ==
  /\ RunnerIdle
  /\ RetryIdle
  /\ DecideIdle
  /\ PoolIdle
  /\ DetIdle
  /\ OthersIdle
  /\ run \in [instances : 1..MaxInstances, parallelism : 1..MaxParallelism,
              branches : {FALSE}]
  /\ ExecStart

NextExec ==
  \/ \E i \in Instances : StartInstance(i)
  \/ \E i \in Instances : WriteStep(i)
  \/ \E i \in Instances : WriteAssertStep(i)
  \/ \E i \in Instances : CompleteInstance(i)
  \/ \E i \in Instances : FailInstance(i)
  \/ CloseRun

SpecExec == InitExec /\ [][NextExec]_vars

\* The event loop keeps running the tasks that are ready: while some step of
\* the executor is possible, one is taken.
SpecExecFair == InitExec /\ [][NextExec]_vars /\ WF_vars(NextExec)

\* Runs of one or two instances whose scenario may contain branches: the
\* record stream the storage sink receives.
InitSink ==
  /\ RunnerIdle
  /\ RetryIdle
  /\ DecideIdle
  /\ PoolIdle
  /\ DetIdle
  /\ OthersIdle
  /\ run \in [instances : {1, 2}, parallelism : {1, 2}, branches : BOOLEAN]
  /\ ExecStart

SpecSink == InitSink /\ [][NextExec]_vars

(***************************************************************************)
(* The HTTP retry state machine (spec section 4.7), embedded in the HTTP   *)
(* action runner: attempt i in 0..max_attempts-1, retriable outcomes,      *)
(* backoff sleep between attempts, terminal fields from the final attempt. *)
(***************************************************************************)
RequestOutcomes ==
  { [kind |-> "response", status_code |-> 200],
    [kind |-> "response", status_code |-> 404],
    [kind |-> "response", status_code |-> 503],
    [kind |-> "timeout", status_code |-> 0],
    [kind |-> "connection_error", status_code |-> 0] }

RetryConfigs ==
  [max_attempts : 1..MaxAttempts,
   on_status : SUBSET {404, 503},
   on_timeout : BOOLEAN,
   on_connection_error : BOOLEAN,
   backoff : {"fixed", "exponential"},
   delay_ms : {50},
   base_delay_ms : {100}]

AttemptRecord(outcome) ==
  [status_code |-> outcome.status_code,
   error |-> CASE outcome.kind = "timeout" -> "Timeout"
               [] outcome.kind = "connection_error" -> "ConnectError"
               [] OTHER -> "None"]

is_retriable_any_failure(outcome, cfg) ==
  ~(outcome.kind = "response" /\ outcome.status_code = 200)

is_retriable(outcome, cfg) ==
  \/ outcome.kind = "response" /\ outcome.status_code \in cfg.on_status
  \/ outcome.kind = "timeout" /\ cfg.on_timeout
  \/ outcome.kind = "connection_error" /\ cfg.on_connection_error

\* After attempt i (0-based): go on to another attempt?
should_retry_unbounded(outcome, i, cfg) == is_retriable(outcome, cfg)

should_retry(outcome, i, cfg) ==
  is_retriable(outcome, cfg) /\ i + 1 < cfg.max_attempts

backoff_delay_no_growth(cfg, i) ==
  IF cfg.backoff = "fixed" THEN cfg.delay_ms ELSE cfg.base_delay_ms

backoff_delay(cfg, i) ==
  IF cfg.backoff = "fixed" THEN cfg.delay_ms ELSE cfg.base_delay_ms * Pow2(i)

HttpObservation_first_attempt(outcome, trail) ==
  [ok |-> outcome.kind = "response" /\ outcome.status_code = 200,
   status_code |-> trail[1].status_code,
   attempts |-> trail]

HttpObservation(outcome, trail) ==
  [ok |-> outcome.kind = "response" /\ outcome.status_code = 200,
   status_code |-> outcome.status_code,
   attempts |-> trail]

SendRequest ==
  /\ phase = "attempt"
  /\ \E outcome \in RequestOutcomes :
       LET i == Len(attempts)
           trail == Append(attempts, AttemptRecord(outcome))
       IN /\ request_log' = Append(request_log, outcome)
          /\ attempts' = trail
          /\ IF should_retry(outcome, i, retry)
             THEN /\ phase' = "backoff"
                  /\ UNCHANGED observations
             ELSE /\ phase' = "done"
                  /\ observations' = Append(observations, HttpObservation(outcome, trail))
  /\ UNCHANGED <<retry, sleeps>>
  /\ UNCHANGED notRetryVars

BackoffSleep ==
  /\ phase = "backoff"
  /\ sleeps' = Append(sleeps, backoff_delay(retry, Len(attempts) - 1))
  /\ phase' = "attempt"
  /\ UNCHANGED <<retry, request_log, attempts, observations>>
  /\ UNCHANGED notRetryVars

InitRetry ==
  /\ RunnerIdle
  /\ ExecIdle
  /\ DecideIdle
  /\ PoolIdle
  /\ DetIdle
  /\ OthersIdle
  /\ retry \in RetryConfigs
  /\ request_log = <<>>
  /\ attempts = <<>>
  /\ sleeps = <<>>
  /\ observations = <<>>
  /\ phase = "attempt"

NextRetry ==
  \/ SendRequest
  \/ BackoffSleep

SpecRetry == InitRetry /\ [][NextRetry]_vars

(***************************************************************************)
(* DecideActionRunner.execute (actions/decide.py) and two runners built    *)
(* from one configuration.                                                 *)
(***************************************************************************)
DecideContexts == { {}, {<<"user", "u1">>, <<"decision_result", "old">>} }

OutputVars == {"decision_result", "next_action"}

DecideObservation(ok, errors, result) ==
  [ok |-> ok, protocol |-> "decide", errors |-> errors, result |-> result]

\* {**context, output_var: choice}
dict_set(context, key, value) ==
  { item \in context : item[1] # key } \cup { <<key, value>> }

decide_failure_context_written(cfg, context) ==
  dict_set(context, cfg.output_var, "None")

\* The context execute returns when the policy or the decision is missing.
decide_failure_context(cfg, context) == context

decide_success_context_default_key(cfg, context, choice) ==
  dict_set(context, "decision_result", choice)

\* The context execute returns after a successful selection.
decide_success_context(cfg, context, choice) ==
  dict_set(context, cfg.output_var, choice)

\* One call of _weighted_choice on runner k.
Choose(k) ==
  /\ k \notin dec_raised
  /\ Len(choices[k]) < MaxChoices
  /\ \E w \in weighted_choice(dec.options, rng[k]) :
        /\ rng' = [rng EXCEPT ![k] = w.state]
        /\ IF w.raised
           THEN /\ dec_raised' = dec_raised \cup {k}
                /\ UNCHANGED choices
           ELSE /\ choices' = [choices EXCEPT ![k] = Append(@, w.choice)]
                /\ UNCHANGED dec_raised
  /\ UNCHANGED <<dec, executions>>
  /\ UNCHANGED notDecideVars

\* One call of DecideActionRunner.execute(context) on runner k.
Execute(k) ==
  /\ k \notin dec_raised
  /\ Len(choices[k]) < MaxChoices
  /\ Len(executions) < MaxChoices
  /\ IF dec.policy # "known"
     THEN /\ executions' = Append(executions,
               [runner |-> k,
                observation |-> DecideObservation(FALSE,
                   <<IF dec.policy = "none"
                     THEN "No policy provided for decide action"
                     ELSE "Decision not found in policy">>, "None"),
                input |-> dec.context,
                context |-> decide_failure_context(dec, dec.context)])
          /\ UNCHANGED <<rng, choices, dec_raised>>
     ELSE \E w \in weighted_choice(dec.options, rng[k]) :
             /\ rng' = [rng EXCEPT ![k] = w.state]
             /\ IF w.raised
                THEN /\ dec_raised' = dec_raised \cup {k}
                     /\ UNCHANGED <<choices, executions>>
                ELSE /\ choices' = [choices EXCEPT ![k] = Append(@, w.choice)]
                     /\ executions' = Append(executions,
                          [runner |-> k,
                           observation |-> DecideObservation(TRUE, <<>>, w.choice),
                           input |-> dec.context,
                           context |-> decide_success_context(dec, dec.context, w.choice)])
                     /\ UNCHANGED dec_raised
  /\ UNCHANGED dec
  /\ UNCHANGED notDecideVars

InitDecide ==
  /\ RunnerIdle
  /\ ExecIdle
  /\ RetryIdle
  /\ PoolIdle
  /\ DetIdle
  /\ OthersIdle
  /\ dec \in [seed : Seeds, options : WeightMaps, policy : {"none", "known", "unknown"},
              context : DecideContexts, output_var : OutputVars]
  /\ rng \in [1..2 -> seed_states(dec.seed)]
  /\ choices = <<(<<>>), (<<>>)>>
  /\ dec_raised = {}
  /\ executions = <<>>

NextDecide ==
  \/ \E k \in 1..2 : Choose(k)
  \/ \E k \in 1..2 : Execute(k)

SpecDecide == InitDecide /\ [][NextDecide]_vars

\* async with self._lock, then the body, or a wait in the lock's queue.
Call(t, op, name) ==
  /\ pc[t] = "idle"
  /\ pool_calls < MaxCalls
  /\ pool_calls' = pool_calls + 1
  /\ IF LockFree
     THEN UnderLock(t, op, name) /\ UNCHANGED waiters
     ELSE /\ waiters' = Append(waiters, [task |-> t, op |-> op, name |-> name])
          /\ pc' = [pc EXCEPT ![t] = "waiting"]
          /\ UNCHANGED <<http_clients, grpc_channels, lock_holder, close_pos,
                         objects, returned>>
  /\ UNCHANGED notPoolVars

GetHttpClient(t, name) == Call(t, "get_http_client", name)

GetGrpcChannel(t, name) == Call(t, "get_grpc_channel", name)

CloseAll(t) == Call(t, "close_all", "")

\* The first waiter is woken by the release of the lock and runs its body.
Resume ==
  /\ lock_holder = 0
  /\ waiters # <<>>
  /\ Head(waiters).task \in Tasks
  /\ waiters' = Tail(waiters)
  /\ UnderLock(Head(waiters).task, Head(waiters).op, Head(waiters).name)
  /\ UNCHANGED pool_calls
  /\ UNCHANGED notPoolVars

\* close_all: await client.aclose() for the next client of the map.
CloseHttpClient(t) ==
  /\ lock_holder = t
  /\ pc[t] = "close_http"
  /\ close_pos <= Len(http_clients)
  /\ objects' = [objects EXCEPT ![http_clients[close_pos].id].closed = @ + 1]
  /\ close_pos' = close_pos + 1
  /\ UNCHANGED <<http_clients, grpc_channels, lock_holder, waiters, pc, returned, pool_calls>>
  /\ UNCHANGED notPoolVars

\* close_all: await client.aclose() raises or is cancelled, after it has
\* closed the client or before.  Nothing in close_all catches it: the
\* exception leaves the async with block, which releases the lock, and the
\* maps stay as they are.
CloseHttpClientRaises(t) ==
  /\ lock_holder = t
  /\ pc[t] = "close_http"
  /\ close_pos <= Len(http_clients)
  /\ \E done \in 0..1 :
       objects' = [objects EXCEPT ![http_clients[close_pos].id].closed = @ + done]
  /\ close_pos' = 0
  /\ lock_holder' = 0
  /\ pc' = [pc EXCEPT ![t] = "idle"]
  /\ returned' = Append(returned, PoolCall(t, "close_all", "", CloseError))
  /\ UNCHANGED <<http_clients, grpc_channels, waiters, pool_calls>>
  /\ UNCHANGED notPoolVars

\* close_all: self._http_clients.clear()
ClearHttpClients(t) ==
  /\ lock_holder = t
  /\ pc[t] = "close_http"
  /\ close_pos > Len(http_clients)
  /\ http_clients' = cleared_map(http_clients)
  /\ pc' = [pc EXCEPT ![t] = "close_grpc"]
  /\ close_pos' = 1
  /\ UNCHANGED <<grpc_channels, lock_holder, waiters, objects, returned, pool_calls>>
  /\ UNCHANGED notPoolVars

\* close_all: await channel.close() for the next channel of the map.
CloseGrpcChannel(t) ==
  /\ lock_holder = t
  /\ pc[t] = "close_grpc"
  /\ close_pos <= Len(grpc_channels)
  /\ objects' = [objects EXCEPT ![grpc_channels[close_pos].id].closed = @ + 1]
  /\ close_pos' = close_pos + 1
  /\ UNCHANGED <<http_clients, grpc_channels, lock_holder, waiters, pc, returned, pool_calls>>
  /\ UNCHANGED notPoolVars

\* close_all: await channel.close() raises or is cancelled; the HTTP map is
\* already empty, the channel map stays as it is.
CloseGrpcChannelRaises(t) ==
  /\ lock_holder = t
  /\ pc[t] = "close_grpc"
  /\ close_pos <= Len(grpc_channels)
  /\ \E done \in 0..1 :
       objects' = [objects EXCEPT ![grpc_channels[close_pos].id].closed = @ + done]
  /\ close_pos' = 0
  /\ lock_holder' = 0
  /\ pc' = [pc EXCEPT ![t] = "idle"]
  /\ returned' = Append(returned, PoolCall(t, "close_all", "", CloseError))
  /\ UNCHANGED <<http_clients, grpc_channels, waiters, pool_calls>>
  /\ UNCHANGED notPoolVars

\* close_all: self._grpc_channels.clear(), release of the lock, return.
ClearGrpcChannels(t) ==
  /\ lock_holder = t
  /\ pc[t] = "close_grpc"
  /\ close_pos > Len(grpc_channels)
  /\ grpc_channels' = cleared_map(grpc_channels)
  /\ pc' = [pc EXCEPT ![t] = "idle"]
  /\ close_pos' = 0
  /\ lock_holder' = 0
  /\ returned' = Append(returned, PoolCall(t, "close_all", "", 0))
  /\ UNCHANGED <<http_clients, waiters, objects, pool_calls>>
  /\ UNCHANGED notPoolVars

InitPool ==
  /\ RunnerIdle
  /\ ExecIdle
  /\ RetryIdle
  /\ DecideIdle
  /\ DetIdle
  /\ OthersIdle
  /\ http_clients = <<>>
  /\ grpc_channels = <<>>
  /\ lock_holder = 0
  /\ waiters = <<>>
  /\ pc = [t \in Tasks |-> "idle"]
  /\ close_pos = 0
  /\ objects = <<>>
  /\ returned = <<>>
  /\ pool_calls = 0

NextPool ==
  \/ \E t \in Tasks, name \in ServiceNames : GetHttpClient(t, name)
  \/ \E t \in Tasks, name \in ServiceNames : GetGrpcChannel(t, name)
  \/ \E t \in Tasks : CloseAll(t)
  \/ Resume
  \/ \E t \in Tasks : CloseHttpClient(t)
  \/ \E t \in Tasks : CloseHttpClientRaises(t)
  \/ \E t \in Tasks : ClearHttpClients(t)
  \/ \E t \in Tasks : CloseGrpcChannel(t)
  \/ \E t \in Tasks : CloseGrpcChannelRaises(t)
  \/ \E t \in Tasks : ClearGrpcChannels(t)

SpecPool == InitPool /\ [][NextPool]_vars

\* The runner of one instance and other tasks of the event loop on one
\* ClientPool: the runner's get_http_client queues behind a close_all that
\* holds the lock.
SharedNodes == { Leaf("http", ""), Leaf("decide", "") }

InitShared ==
  /\ ExecIdle
  /\ RetryIdle
  /\ DecideIdle
  /\ DetIdle
  /\ OthersIdle
  /\ http_clients = <<>>
  /\ grpc_channels = <<>>
  /\ lock_holder = 0
  /\ waiters = <<>>
  /\ pc = [t \in Tasks |-> "idle"]
  /\ close_pos = 0
  /\ objects = <<>>
  /\ returned = <<>>
  /\ pool_calls = 0
  /\ \E flow \in [1..1 -> SharedNodes] :
       scenario = [flow |-> flow, max_steps |-> DefaultMaxSteps,
                   any_action_fails |-> FALSE, step_delay_ms |-> 0, jitter_ms |-> 0,
                   turbulence |-> "none",
                 seed |-> NoSeed, transcript |-> <<>>]
  /\ policy = [ref |-> "p", loaded |-> <<LoadedPolicy("p", "known")>>, options |-> EqualWeights]
  /\ RunnerStart

NextShared == Next \/ NextPool

SpecShared == InitShared /\ [][NextShared]_vars

(***************************************************************************)
(* Two runs of one scenario on the same seed, policy, entry records and    *)
(* network transcript.  A run starts one instance task per instance; each  *)
(* task iterates execute_flow of a ScenarioRunner built with the           *)
(* instance's seed, and all tasks of a run share one ClientPool.  The      *)
(* event loop runs one task at a time and changes task only where the      *)
(* running one is suspended: at the await of a runner, of the lock or of a *)
(* sleep, and while the consumer of execute_flow writes the StepRecord of  *)
(* a tuple.  The runner variables hold the task that is running; the       *)
(* runners of the other tasks wait in det_tasks.  The mocked network       *)
(* answers the k-th request of an instance with the k-th status of the     *)
(* instance's transcript (the last one again after its end).               *)
(***************************************************************************)
Runs == 1..2

DetInstances == 1..MaxDetInstances

\* decide, a request, then a branch on its response with a nested branch on
\* one side and a skipped assert on the other; and a flow whose second action
\* raises.
DetFlows ==
  { <<Leaf("decide", ""), Leaf("http", ""),
      BranchAction("last_ok", <<Leaf("http", ""), InnerBranch>>, <<Leaf("assert", "false")>>)>>,
    <<Leaf("http", ""), Leaf("decide", ""), Leaf("grpc", "")>> }

DetTranscripts == [DetInstances -> {<<500>>, <<200, 500>>}]

\* The scenario, runner seed and network of instance i.
InstanceScenario(i) ==
  [flow |-> det.flow, max_steps |-> DefaultMaxSteps, any_action_fails |-> FALSE,
   step_delay_ms |-> 0, jitter_ms |-> 0, turbulence |-> "none",
   seed |-> runner_seed(det.seed, i), transcript |-> det.transcript[i]]

\* The runner of the task that is running.
RunnerState ==
  [frames |-> frames, emitted |-> emitted, steps_executed |-> steps_executed,
   status |-> status, awaiting |-> awaiting, runner_calls |-> runner_calls,
   client_gets |-> client_gets, branch_evals |-> branch_evals, visits |-> visits,
   delays |-> delays]

\* The runner of a task that has not run yet.
FreshTask ==
  [frames |-> <<Frame(det.flow, InitialContext, 0, <<>>, NoObservation)>>,
   emitted |-> <<>>, steps_executed |-> 0, status |-> "running", awaiting |-> "nothing",
   runner_calls |-> <<>>, client_gets |-> <<>>, branch_evals |-> {}, visits |-> <<>>,
   delays |-> <<>>]

\* The entry of det_tasks of the task that is running.
Scheduled == [status |-> "scheduled"]

\* The StepRecord the instance task writes for an emitted tuple, without its
\* timestamps: the action is named by its place in the scenario.
RecordOf(t) ==
  [step_index |-> t.step_index, action_name |-> <<t.kind, t.path>>,
   status_code |-> t.observation.status_code,
   result |-> IF t.kind = "decide" THEN t.observation.body ELSE "None",
   branch_taken |-> t.observation.branch_taken,
   condition_skipped |-> t.observation.condition_skipped]

RecordsOf(tuples) == [k \in 1..Len(tuples) |-> RecordOf(tuples[k])]

\* The running task is suspended, has ended, or has not begun.
Suspended ==
  \/ status # "running"
  \/ awaiting # "nothing"
  \/ RunnerState = FreshTask

\* The tasks of the run that ended before the running one, in order, and the
\* running one after them once it has ended.
EndedTasks ==
  IF status # "running" THEN Append(det_run.ended, det_run.current) ELSE det_run.ended

\* The event loop leaves the running task for task j, which goes on from
\* where it was suspended.
DetSwitch(j) ==
  /\ det_run.run \in Runs
  /\ j # det_run.current
  /\ det_tasks[j].status = "running"
  /\ Suspended
  /\ det_tasks' = [det_tasks EXCEPT ![det_run.current] = RunnerState, ![j] = Scheduled]
  /\ det_run' = [det_run EXCEPT !.current = j, !.ended = EndedTasks]
  /\ scenario' = InstanceScenario(j)
  /\ frames' = det_tasks[j].frames
  /\ emitted' = det_tasks[j].emitted
  /\ steps_executed' = det_tasks[j].steps_executed
  /\ status' = det_tasks[j].status
  /\ awaiting' = det_tasks[j].awaiting
  /\ runner_calls' = det_tasks[j].runner_calls
  /\ client_gets' = det_tasks[j].client_gets
  /\ branch_evals' = det_tasks[j].branch_evals
  /\ visits' = det_tasks[j].visits
  /\ delays' = det_tasks[j].delays
  /\ UNCHANGED <<policy, det, det_records>>
  /\ UNCHANGED <<execVars, retryVars, decideVars, poolVars, grpcVars, factoryVars,
                 gateVars, storageVars>>

\* Every task of the first run has ended: what the run wrote is kept, and
\* the second run starts its tasks on a ClientPool of its own.
DetNextRun ==
  /\ det_run.run = 1
  /\ status # "running"
  /\ \A i \in DetInstances \ {det_run.current} : det_tasks[i].status # "running"
  /\ det_records' =
       [steps |-> [i \in DetInstances |->
                     RecordsOf(IF i = det_run.current THEN emitted
                                 ELSE det_tasks[i].emitted)],
        ended |-> EndedTasks]
  /\ det_run' = [run |-> 2, current |-> 1, ended |-> <<>>]
  /\ det_tasks' = [i \in DetInstances |-> IF i = 1 THEN Scheduled ELSE FreshTask]
  /\ scenario' = InstanceScenario(1)
  /\ frames' = FreshTask.frames
  /\ emitted' = <<>>
  /\ steps_executed' = 0
  /\ status' = "running"
  /\ awaiting' = "nothing"
  /\ runner_calls' = <<>>
  /\ client_gets' = <<>>
  /\ branch_evals' = {}
  /\ visits' = <<>>
  /\ delays' = <<>>
  /\ http_clients' = <<>>
  /\ objects' = <<>>
  /\ returned' = <<>>
  /\ UNCHANGED <<policy, det, grpc_channels, lock_holder, waiters, pc, close_pos, pool_calls>>
  /\ UNCHANGED <<execVars, retryVars, decideVars, grpcVars, factoryVars, gateVars,
                 storageVars>>

InitDet ==
  /\ ExecIdle
  /\ RetryIdle
  /\ DecideIdle
  /\ PoolIdle
  /\ OthersIdle
  /\ det \in [seed : Seeds \ {NoSeed}, flow : DetFlows, transcript : DetTranscripts]
  /\ det_run = [run |-> 1, current |-> 1, ended |-> <<>>]
  /\ det_tasks = [i \in DetInstances |-> IF i = 1 THEN Scheduled ELSE FreshTask]
  /\ det_records = <<>>
  /\ scenario = InstanceScenario(1)
  /\ policy = [ref |-> "p", loaded |-> <<LoadedPolicy("p", "known")>>, options |-> EqualWeights]
  /\ RunnerStart

NextDet ==
  \/ \E j \in DetInstances : DetSwitch(j)
  \/ DetNextRun
  \/ Next

SpecDet == InitDet /\ [][NextDet]_vars

(***************************************************************************)
(* GrpcActionRunner.execute (actions/grpc.py).  The server, the reflection *)
(* client and the protobuf conversions are the environment: grpc_env says  *)
(* which of them succeed.                                                  *)
(***************************************************************************)
GrpcActions ==
  [service : ServiceNames, method_has_slash : BOOLEAN, extract : BOOLEAN]

GrpcEnvs ==
  [resolved : BOOLEAN, method_found : BOOLEAN, parse_ok : BOOLEAN,
   call_ok : BOOLEAN, extract_ok : BOOLEAN]

GrpcContexts == { {}, {<<"user", "u1">>} }

\* extract_values(self.action.extract, response_dict)
Extracted == { <<"user_id", "42">> }

\* grpc.StatusCode.UNKNOWN.value[0]
StatusUnknown == 2

GrpcObservation(ok, status_code, errors, body) ==
  [ok |-> ok, protocol |-> "grpc", status_code |-> status_code, errors |-> errors,
   body |-> body]

error_obs_no_errors(error) == GrpcObservation(FALSE, StatusUnknown, <<>>, "None")

\* GrpcActionRunner._error_obs
error_obs(error) == GrpcObservation(FALSE, StatusUnknown, <<error>>, "None")

Returned(observation, context) ==
  [state |-> "returned", observation |-> observation, context |-> context]

Raised(error) == [state |-> "raised", error |-> error]

\* context.update(extracted) on a dict held as its set of items.
dict_update(context, extracted) ==
  { item \in context : \A e \in extracted : e[1] # item[1] } \cup extracted

\* self.channel: the pooled channel the runner was built with, or None.
RunnerChannels == {"pooled", "None"}

\* The context manager execute enters: a no-op wrapper around the pooled
\* channel, or a new channel to the target.
channel_context(channel) ==
  IF channel # "None" THEN "noop_context" ELSE "insecure_channel"

aexit_closes_always(manager) == TRUE

\* What leaving the async with block does, on return and on exception:
\* noop_context only yields, grpc.aio.Channel.__aexit__ closes the channel.
aexit_closes(manager) == manager = "insecure_channel"

\* The channel the call was made on and whether execute closed it.
ChannelUse(channel, closed) == [channel |-> channel, closed |-> closed]

NoChannel == ChannelUse("unused", FALSE)

\* A call suspended inside the async with block, on the channel it uses.
Inside(state) ==
  [state |-> state]
    @@ ChannelUse(IF runner_channel # "None" THEN runner_channel ELSE "temporary", FALSE)

\* Leaving the async with block with what execute will return, by return or
\* by an exception the except clause turns into an error observation:
\* noop_context finishes at once, a temporary channel's __aexit__ is awaited.
Leave(outcome) ==
  LET manager == channel_context(runner_channel)
  IN IF manager = "noop_context"
     THEN outcome @@ ChannelUse(runner_channel, aexit_closes(manager))
     ELSE [outcome EXCEPT !.state = "closing"] @@ ChannelUse("temporary", FALSE)

\* execute up to its first await: the service check outside the try, the
\* choice of the channel context, the method format, then the reflection
\* request (grpc.py:48-79).
GrpcExecute ==
  /\ grpc_result.state = "ready"
  /\ grpc_result' =
       IF grpc_action.service \notin DOMAIN SutServices
       THEN Raised("KeyError") @@ NoChannel
       ELSE IF SutServices[grpc_action.service] # "grpc"
       THEN Raised("ValueError") @@ NoChannel
       ELSE IF ~grpc_action.method_has_slash
       THEN Leave(Returned(error_obs("Invalid gRPC method format"), grpc_context))
       ELSE Inside("resolving")
  /\ UNCHANGED <<grpc_action, runner_channel, grpc_env, grpc_context, grpc_passed>>
  /\ UNCHANGED notGrpcVars

\* refl.resolve_service answers: the service, the method's message classes
\* and the request message, then the unary call (grpc.py:79-111).
GrpcResolveService ==
  /\ grpc_result.state = "resolving"
  /\ grpc_result' =
       IF ~grpc_env.resolved
       THEN Leave(Returned(error_obs("Failed to resolve gRPC service"), grpc_context))
       ELSE IF ~grpc_env.method_found
       THEN Leave(Returned(error_obs("Method not found in service"), grpc_context))
       ELSE IF ~grpc_env.parse_ok
       THEN Leave(Returned(error_obs("ParseError"), grpc_context))
       ELSE Inside("calling")
  /\ UNCHANGED <<grpc_action, runner_channel, grpc_env, grpc_context, grpc_passed>>
  /\ UNCHANGED notGrpcVars

\* The unary call answers: the observation, the extraction into the caller's
\* dict, and the return of that same dict (grpc.py:107-137).
GrpcUnaryCall ==
  /\ grpc_result.state = "calling"
  /\ IF ~grpc_env.call_ok
     THEN /\ grpc_result' = Leave(Returned(error_obs("AioRpcError"), grpc_context))
          /\ UNCHANGED grpc_context
     ELSE IF grpc_action.extract /\ ~grpc_env.extract_ok
     THEN /\ grpc_result' = Leave(Returned(error_obs("ExtractionError"), grpc_context))
          /\ UNCHANGED grpc_context
     ELSE /\ grpc_context' = IF grpc_action.extract
                             THEN dict_update(grpc_context, Extracted)
                             ELSE grpc_context
          /\ grpc_result' = Leave(Returned(GrpcObservation(TRUE, 0, <<>>, "response"),
                                           grpc_context'))
  /\ UNCHANGED <<grpc_action, runner_channel, grpc_env, grpc_passed>>
  /\ UNCHANGED notGrpcVars

\* The temporary channel's __aexit__ returns: the channel is closed and
\* execute returns (grpc.py:70, 139-140).
GrpcAexit ==
  /\ grpc_result.state = "closing"
  /\ grpc_result' = [grpc_result EXCEPT !.state = "returned",
                                         !.closed = aexit_closes("insecure_channel")]
  /\ UNCHANGED <<grpc_action, runner_channel, grpc_env, grpc_context, grpc_passed>>
  /\ UNCHANGED notGrpcVars

InitGrpc ==
  /\ RunnerIdle
  /\ ExecIdle
  /\ RetryIdle
  /\ DecideIdle
  /\ PoolIdle
  /\ DetIdle
  /\ FactoryIdle
  /\ GateIdle
  /\ StorageIdle
  /\ grpc_action \in GrpcActions
  /\ runner_channel \in RunnerChannels
  /\ grpc_env \in GrpcEnvs
  /\ grpc_context \in GrpcContexts
  /\ grpc_passed = grpc_context
  /\ grpc_result = [state |-> "ready"]

NextGrpc ==
  \/ GrpcExecute
  \/ GrpcResolveService
  \/ GrpcUnaryCall
  \/ GrpcAexit

SpecGrpc == InitGrpc /\ [][NextGrpc]_vars

(***************************************************************************)
(* ActionRunnerFactory (actions/factory.py): a class-level dict from the   *)
(* action type to the runner class, held as a set of <<type, class>> pairs *)
(* with one pair per type.                                                 *)
(***************************************************************************)
ActionTypes == {"http", "grpc", "decide"}

RunnerClasses == {"GrpcActionRunner", "DecideActionRunner"}

\* The parameters of each runner class's __init__.
RunnerParams ==
  [GrpcActionRunner |-> {"action", "sut_config", "channel"},
   DecideActionRunner |-> {"action", "policy", "seed"}]

\* The keyword arguments _execute_action adds for a create call.
ExtraKwargs == { {}, {"policy", "seed"} }

register_keep_first(runners, action_type, runner_class) ==
  IF \E item \in runners : item[1] = action_type THEN runners
  ELSE runners \cup { <<action_type, runner_class>> }

\* cls._runners[action_type] = runner_class
register(runners, action_type, runner_class) ==
  { item \in runners : item[1] # action_type } \cup { <<action_type, runner_class>> }

\* ActionRunnerFactory.create: the ValueError, or the instance constructed
\* with the arguments its class's __init__ names.
create(runners, action_type, kwargs) ==
  IF ~\E item \in runners : item[1] = action_type
  THEN [raised |-> "ValueError", class |-> "None", init_args |-> {}]
  ELSE LET runner_class == (CHOOSE item \in runners : item[1] = action_type)[2]
           params == RunnerParams[runner_class]
       IN [raised |-> "None", class |-> runner_class,
           init_args |-> ({"action", "sut_config", "client", "channel"} \cup kwargs)
                           \cap params]

Register(action_type, runner_class) ==
  /\ Len(registrations) < MaxRegistrations
  /\ factory_runners' = register(factory_runners, action_type, runner_class)
  /\ registrations' = Append(registrations, <<action_type, runner_class>>)
  /\ UNCHANGED created
  /\ UNCHANGED notFactoryVars

Create(action_type, kwargs) ==
  /\ Len(created) < MaxCreates
  /\ created' = Append(created,
        [type |-> action_type, registered |-> Len(registrations),
         result |-> create(factory_runners, action_type, kwargs)])
  /\ UNCHANGED <<factory_runners, registrations>>
  /\ UNCHANGED notFactoryVars

InitFactory ==
  /\ RunnerIdle
  /\ ExecIdle
  /\ RetryIdle
  /\ DecideIdle
  /\ PoolIdle
  /\ DetIdle
  /\ GrpcIdle
  /\ GateIdle
  /\ StorageIdle
  /\ factory_runners = {}
  /\ registrations = <<>>
  /\ created = <<>>

NextFactory ==
  \/ \E action_type \in ActionTypes, runner_class \in RunnerClasses :
       Register(action_type, runner_class)
  \/ \E action_type \in ActionTypes, kwargs \in ExtraKwargs :
       Create(action_type, kwargs)

SpecFactory == InitFactory /\ [][NextFactory]_vars

(***************************************************************************)
(* Threshold.evaluate (gating/threshold.py).                               *)
(***************************************************************************)
Operators == {"<", ">", "<=", ">="}

Metrics == {"pass_rate", "error_count"}

\* Threshold values as written in the threshold string and metric values of
\* the summary, in hundredths.
ThresholdValues == {0, 7, 50, 95, 99, 100, 150, 9500}

ActualValues == {0, 50, 100, 150, 700, 9850, 10000}

\* float(value_str), and the float a summary attribute holds.
parse_float(hundredths) == float_div(hundredths, 100)

compare(operator, actual, threshold_val) ==
  CASE operator = "<" -> float_lt(actual, threshold_val)
    [] operator = ">" -> float_lt(threshold_val, actual)
    [] operator = "<=" -> float_le(actual, threshold_val)
    [] operator = ">=" -> float_le(threshold_val, actual)

\* threshold_val after the pass_rate special case: threshold_val *= 100.0
\* when the value is at most 1.0 and the actual value is above 1.0.
threshold_val(t, actual) ==
  IF /\ t.metric = "pass_rate"
     /\ float_le(parse_float(t.value), parse_float(100))
     /\ float_lt(parse_float(100), actual)
  THEN float_mul(parse_float(t.value), 100)
  ELSE parse_float(t.value)

evaluate(t, summary_value) ==
  LET actual == parse_float(summary_value)
  IN [state |-> "evaluated",
      passed |-> compare(t.operator, actual, threshold_val(t, actual)),
      actual |-> actual, threshold_val |-> threshold_val(t, actual)]

Evaluate ==
  /\ gate_result.state = "ready"
  /\ gate_result' = evaluate(threshold, summary)
  /\ UNCHANGED <<threshold, summary>>
  /\ UNCHANGED notGateVars

InitGate ==
  /\ RunnerIdle
  /\ ExecIdle
  /\ RetryIdle
  /\ DecideIdle
  /\ PoolIdle
  /\ DetIdle
  /\ GrpcIdle
  /\ FactoryIdle
  /\ StorageIdle
  /\ threshold \in [metric : Metrics, operator : Operators, value : ThresholdValues]
  /\ summary \in ActualValues
  /\ gate_result = [state |-> "ready"]

SpecGate == InitGate /\ [][Evaluate]_vars

(***************************************************************************)
(* The storage writers (storage/jsonl.py, storage/sqlite.py): one sequence *)
(* of initialize, write_instance, write_step, write_assertion and close    *)
(* calls is made on a JSONLStorageWriter and on a SQLiteStorageWriter that *)
(* share one run directory.  A call returns the writer's next state and    *)
(* the exception it raised, if any.  write_jsonl_record appends to a file  *)
(* of the run directory without a writer.                                  *)
(***************************************************************************)
StorageRunIds == {"r1"}

InstanceRecords == [instance_id : {"i1", "i2"}, passed : BOOLEAN]

StepRecords == [instance_id : {"i1"}, step_index : {0, 1}]

AssertionRecords == [instance_id : {"i1"}, step_index : {0}, passed : BOOLEAN]

StorageOk(state) == [state |-> state, raised |-> "None"]

StorageRaise(state, error) == [state |-> state, raised |-> error]

\* record.model_dump_json(): the record's fields with JSON booleans.
model_dump_json(record) ==
  [f \in DOMAIN record |->
     IF f = "passed" THEN (IF record[f] THEN "true" ELSE "false") ELSE record[f]]

\* json.loads(line) in read_jsonl
json_loads(line) ==
  [f \in DOMAIN line |-> IF f = "passed" THEN line[f] = "true" ELSE line[f]]

\* JSONLWriter.write: a closed writer has no file and raises.
JSONLWriter_write(j, file, record) ==
  IF j.writers = "closed" THEN StorageRaise(j, "RuntimeError")
  ELSE StorageOk([j EXCEPT ![file] = Append(@, model_dump_json(record))])

\* write_jsonl_record(path, record): opens the file for appending, writes
\* the line and closes it, whatever the state of the storage writer.
write_jsonl_record(j, file, record) ==
  [j EXCEPT ![file] = Append(@, model_dump_json(record))]

\* JSONLStorageWriter.initialize: writes manifest.json and opens the three
\* files for appending.
jsonl_initialize(j, run_id) ==
  StorageOk([j EXCEPT !.writers = "open", !.manifest = run_id])

\* JSONLStorageWriter.write_instance / write_step / write_assertion: a no-op
\* while the writer attribute is None, JSONLWriter.write once it is set.
jsonl_write(j, file, record) ==
  IF j.writers = "None" THEN StorageOk(j) ELSE JSONLWriter_write(j, file, record)

\* JSONLStorageWriter.close: closes the files and keeps the JSONLWriters.
jsonl_close(j) ==
  StorageOk(IF j.writers = "None" THEN j ELSE [j EXCEPT !.writers = "closed"])

\* SQLiteStorageWriter.initialize: connects, creates the schema if missing
\* and inserts the run; runs.id is the primary key.
sqlite_initialize(s, run_id) ==
  LET connected == [s EXCEPT !.conn = "open"]
  IN  IF run_id \in s.runs THEN StorageRaise(connected, "IntegrityError")
      ELSE StorageOk([connected EXCEPT !.runs = @ \cup {run_id}])

instance_row(record) ==
  [id |-> record.instance_id, status |-> IF record.passed THEN "pass" ELSE "fail"]

step_row(id, record) ==
  [id |-> id, instance_id |-> record.instance_id, step_index |-> record.step_index]

assertion_row(id, record) ==
  [id |-> id, instance_id |-> record.instance_id, step_index |-> record.step_index,
   passed |-> IF record.passed THEN 1 ELSE 0]

\* SQLiteStorageWriter.write_instance: INSERT OR REPLACE on the primary key id.
sqlite_write_instance(s, record) ==
  IF s.conn = "None" THEN StorageOk(s)
  ELSE StorageOk([s EXCEPT !.instances =
                    {r \in @ : r.id # record.instance_id} \cup {instance_row(record)}])

\* SQLiteStorageWriter.write_step: INSERT with an AUTOINCREMENT id.
sqlite_write_step(s, record) ==
  IF s.conn = "None" THEN StorageOk(s)
  ELSE StorageOk([s EXCEPT !.steps = Append(@, step_row(Len(@) + 1, record))])

\* SQLiteStorageWriter.write_assertion: INSERT with an AUTOINCREMENT id.
sqlite_write_assertion(s, record) ==
  IF s.conn = "None" THEN StorageOk(s)
  ELSE StorageOk([s EXCEPT !.assertions = Append(@, assertion_row(Len(@) + 1, record))])

\* SQLiteStorageWriter.close: closes the connection and forgets it.
sqlite_close(s) == StorageOk([s EXCEPT !.conn = "None"])

StorageCall(op, j, q) ==
  [op |-> op, jsonl_raised |-> j.raised, sqlite_raised |-> q.raised]

\* One call made on both writers.
Drive(op, j, q) ==
  /\ jsonl' = j.state
  /\ sqlite' = q.state
  /\ storage_calls' = Append(storage_calls, StorageCall(op, j, q))
  /\ UNCHANGED jsonl_direct
  /\ UNCHANGED notStorageVars

StorageInitialize ==
  /\ Len(storage_calls) < MaxStorageCalls
  /\ \E run_id \in StorageRunIds :
       Drive("initialize", jsonl_initialize(jsonl, run_id),
             sqlite_initialize(sqlite, run_id))

StorageWriteInstance ==
  /\ Len(storage_calls) < MaxStorageCalls
  /\ \E record \in InstanceRecords :
       Drive("write_instance", jsonl_write(jsonl, "instances", record),
             sqlite_write_instance(sqlite, record))

StorageWriteStep ==
  /\ Len(storage_calls) < MaxStorageCalls
  /\ \E record \in StepRecords :
       Drive("write_step", jsonl_write(jsonl, "steps", record),
             sqlite_write_step(sqlite, record))

StorageWriteAssertion ==
  /\ Len(storage_calls) < MaxStorageCalls
  /\ \E record \in AssertionRecords :
       Drive("write_assertion", jsonl_write(jsonl, "assertions", record),
             sqlite_write_assertion(sqlite, record))

StorageClose ==
  /\ Len(storage_calls) < MaxStorageCalls
  /\ Drive("close", jsonl_close(jsonl), sqlite_close(sqlite))

\* The records a file of the run directory takes.
FileRecords ==
  [instances |-> InstanceRecords, steps |-> StepRecords, assertions |-> AssertionRecords]

WriteJsonlRecord ==
  /\ jsonl_direct < MaxDirectWrites
  /\ \E file \in DOMAIN FileRecords : \E record \in FileRecords[file] :
       jsonl' = write_jsonl_record(jsonl, file, record)
  /\ jsonl_direct' = jsonl_direct + 1
  /\ UNCHANGED <<sqlite, storage_calls>>
  /\ UNCHANGED notStorageVars

InitStorage ==
  /\ RunnerIdle
  /\ ExecIdle
  /\ RetryIdle
  /\ DecideIdle
  /\ PoolIdle
  /\ DetIdle
  /\ GrpcIdle
  /\ FactoryIdle
  /\ GateIdle
  /\ StorageIdle

NextStorage ==
  \/ StorageInitialize
  \/ StorageWriteInstance
  \/ StorageWriteStep
  \/ StorageWriteAssertion
  \/ StorageClose
  \/ WriteJsonlRecord

SpecStorage == InitStorage /\ [][NextStorage]_vars


(***************************************************************************)
(* Helpers for the properties of the scenario runner.                      *)
(***************************************************************************)
RECURSIVE NodeIn(_, _)
NodeIn(actions, p) ==
  IF Len(p) = 1 THEN actions[p[1]]
  ELSE NodeIn(IF p[2] = 1 THEN actions[p[1]].if_true ELSE actions[p[1]].if_false,
              SubSeq(p, 3, Len(p)))

NodeAt(p) == NodeIn(scenario.flow, p)

\* q is the path of a node inside one of the two child lists of the branch at p.
IsUnder(p, q) == Len(q) > Len(p) + 1 /\ SubSeq(q, 1, Len(p)) = p

TakenSide(observation) == IF observation.branch_taken = "if_true" THEN 1 ELSE 0

\* Every sequence of tuples some generator of the runner has yielded:
\* to the consumer of execute_flow, or to the loop of _execute_branch.
YieldSeqs ==
  {emitted} \cup { frames[k].results : k \in 1..Depth }
            \cup { frames[k].pending : k \in 1..Depth }

\* The tuples yielded so far by the generator that walks frames[k].
YieldedBy(k) == IF k = 1 THEN emitted ELSE frames[k].results

RunnerActive == status # "idle"

\* The iteration over execute_flow is over without an exception: the flow is
\* exhausted or a stop condition broke the loop.
FlowEnded == status \in {"done", "max_steps", "failed"}

\* The decision tuples emitted for the branch at path p.
DecisionTuples(p) ==
  { i \in 1..Len(emitted) : emitted[i].path = p /\ emitted[i].kind = "branch" }

\* C2: within one call of execute_flow the k-th emitted tuple carries
\* step_index k (counting from 0): the indices are unique, increasing, gapless.
C2_StepIndexSequential ==
  \A k \in 1..Len(emitted) : emitted[k].step_index = k - 1

\* C3: every BranchAction the runner reaches emits exactly one decision tuple
\* (ok, not skipped, branch_result the evaluated condition, branch_taken
\* matching it), followed by tuples of the chosen child list only; nothing of
\* the other list is executed or emitted.  A branch is reached when
\* _execute_branch evaluates its condition; its tuple is due by the time the
\* iteration over execute_flow has ended.
C3_BranchDecision ==
  /\ \A i \in 1..Len(emitted) :
       emitted[i].kind = "branch" =>
         LET p == emitted[i].path
             o == emitted[i].observation
         IN /\ o.ok
            /\ ~o.condition_skipped
            /\ NodeAt(p).kind = "branch"
            /\ \E e \in branch_evals :
                 /\ e.path = p
                 /\ o.branch_result =
                      BoolStr(evaluate_safe(NodeAt(p).condition, e.context, FALSE))
            /\ o.branch_taken = (IF o.branch_result = "True" THEN "if_true" ELSE "if_false")
            /\ \A j \in 1..Len(emitted) :
                 IsUnder(p, emitted[j].path) =>
                   j > i /\ emitted[j].path[Len(p) + 1] = TakenSide(o)
  /\ \A e \in branch_evals : Cardinality(DecisionTuples(e.path)) <= 1
  /\ FlowEnded => \A e \in branch_evals : Cardinality(DecisionTuples(e.path)) = 1
  /\ \A e \in branch_evals :
       LET other == IF evaluate_safe(NodeAt(e.path).condition, e.context, FALSE) THEN 0 ELSE 1
           NotChosen(q) == IsUnder(e.path, q) /\ q[Len(e.path) + 1] = other
       IN /\ \A i \in 1..Len(runner_calls) : ~NotChosen(runner_calls[i].path)
          /\ \A i \in 1..Len(client_gets) : ~NotChosen(client_gets[i])
          /\ \A i \in 1..Len(emitted) : ~NotChosen(emitted[i].path)
          /\ \A k \in 1..Depth : ~NotChosen(frames[k].path \o <<1>>)

\* The non-branch action at the cursor has a condition that evaluates to false.
ConditionFalseAtCursor ==
  /\ AtAction
  /\ Cur.kind # "branch"
  /\ Cur.condition # ""
  /\ ~evaluate_safe(Cur.condition, Top.context, TRUE)

\* The consumer of execute_flow holds the tuple of a skipped action.
SkippedAtYield ==
  /\ status = "running"
  /\ awaiting = "yield"
  /\ emitted[Len(emitted)].observation.condition_skipped

\* C4: a non-branch action whose condition evaluates to false yields exactly
\* one tuple, with condition_skipped, ok and latency_ms = 0; no runner is
\* invoked and no client is requested for it, and the context is passed on
\* unchanged to the next action: at once inside a branch, and when the
\* consumer asks for the next tuple at the top of the flow.
C4_ConditionalSkip ==
  [][/\ ConditionFalseAtCursor =>
          /\ Len(frames') = Len(frames)
          /\ LET S == YieldedBy(Depth)
                 T == IF Depth = 1 THEN emitted' ELSE frames'[Depth].results
             IN /\ Len(T) = Len(S) + 1
                /\ SubSeq(T, 1, Len(S)) = S
                /\ T[Len(T)].path = CurPath
                /\ T[Len(T)].observation.condition_skipped
                /\ T[Len(T)].observation.ok
                /\ T[Len(T)].observation.latency_ms = 0
                /\ T[Len(T)].context = Top.context
          /\ frames'[Depth].context = Top.context
          /\ IF Depth = 1
             THEN awaiting' = "yield" /\ frames' = frames
             ELSE frames'[Depth].pos = Top.pos + 1
          /\ runner_calls' = runner_calls
          /\ client_gets' = client_gets
     /\ SkippedAtYield =>
          /\ emitted' = emitted
          /\ runner_calls' = runner_calls
          /\ client_gets' = client_gets
          /\ frames'[1].context = frames[1].context
          /\ status' = "running" => frames'[1].pos = frames[1].pos + 1]_vars

\* C4 witness: after a response was stored, a skipped tuple was emitted whose
\* context still carries that last_response, and no runner ran for its node.
C4_Witness ==
  \E i \in 1..Len(emitted) :
    /\ emitted[i].observation.condition_skipped
    /\ emitted[i].context.has_last
    /\ \A c \in 1..Len(runner_calls) : runner_calls[c].path # emitted[i].path
    /\ i < Len(emitted)

\* C6: whenever the runner is between two actions, context.last_response is
\* absent if no HTTP or wait action has executed, and otherwise holds the
\* status_code, headers and body of the observation of the most recently
\* executed HTTP or wait action, failed or not; decide, assert, branch and
\* skipped actions leave it as it is.
C6_LastResponse ==
  (RunnerActive /\ Top.pending = <<>>) =>
     IF NetworkCalls = <<>>
     THEN ~Top.context.has_last
     ELSE LET o == NetworkCalls[Len(NetworkCalls)].observation
          IN /\ Top.context.has_last
             /\ Top.context.last_response =
                  [status_code |-> o.status_code, headers |-> o.headers, body |-> o.body]

\* The flow has been walked to its end: nothing is left to execute or forward.
FlowExhausted ==
  /\ Depth = 1
  /\ frames[1].pos > Len(frames[1].actions)
  /\ frames[1].pending = <<>>

\* C7: with any_action_fails set, no tuple is emitted after the first emitted
\* tuple with ok = false; without it, a failing observation does not stop the
\* iteration (only max_steps, an exception or the end of the flow does).
C7_StopOnFailure ==
  /\ scenario.any_action_fails =>
       \A i \in 1..(Len(emitted) - 1) : emitted[i].observation.ok
  /\ (~scenario.any_action_fails /\ status \notin {"idle", "running", "raised"}) =>
       (FlowExhausted \/ Len(emitted) >= scenario.max_steps)

\* C7 witness: the iteration stopped at a failing tuple nested in a branch
\* while further tuples of that branch were still to be forwarded.
C7_Witness ==
  /\ scenario.any_action_fails
  /\ status = "failed"
  /\ Len(emitted[Len(emitted)].path) > 1
  /\ ~emitted[Len(emitted)].observation.ok
  /\ Len(frames[1].pending) > 1

\* C8: for max_steps >= 1 at most max_steps tuples are emitted; decision
\* tuples, nested tuples and skipped tuples each count as one step.
C8_MaxSteps ==
  /\ Len(emitted) = steps_executed + (IF AtYield THEN 1 ELSE 0)
  /\ scenario.max_steps >= 1 => Len(emitted) <= scenario.max_steps

\* C8 witness: the iteration was cut at max_steps = 3 after a decision tuple,
\* a nested tuple and a skipped tuple, with more of the flow left.
C8_Witness ==
  /\ status = "max_steps"
  /\ scenario.max_steps = 3
  /\ Len(emitted) = 3
  /\ \E i \in 1..3 : emitted[i].kind = "branch"
  /\ \E i \in 1..3 : Len(emitted[i].path) > 1
  /\ \E i \in 1..3 : emitted[i].observation.condition_skipped
  /\ ~FlowExhausted

(***************************************************************************)
(* Properties of the parallel executor.                                    *)
(***************************************************************************)
InFlight == { i \in Instances : task[i] = "running" }

\* C1: in every reachable state of the executor the number of instance tasks
\* that have started and not yet completed is at most parallelism.
C1_ConcurrencyBound ==
  /\ Cardinality(InFlight) <= run.parallelism
  /\ permits = run.parallelism - Cardinality(InFlight)

\* C1 witness: after one instance completed, parallelism instances are in
\* flight while another one still waits for a permit.
C1_Witness ==
  /\ Cardinality(InFlight) = run.parallelism
  /\ permits = 0
  /\ \E i \in Instances : task[i] = "waiting"
  /\ \E i \in Instances : task[i] = "done"

AllStepsOk(i) == \A k \in 1..Len(step_records[i]) : step_records[i][k].ok

AllAssertionsPassed(i) == \A k \in 1..Len(assertion_records[i]) : assertion_records[i][k]

\* C5: the InstanceRecord of an instance has passed = true if and only if
\* every StepRecord of the instance has ok = true and every AssertionRecord
\* of the instance has passed = true.
C5_PassedIffAllOk ==
  \A i \in Instances : \A r \in 1..Len(instance_records[i]) :
     instance_records[i][r].passed <=> (AllStepsOk(i) /\ AllAssertionsPassed(i))

\* C5 (amended): the InstanceRecord of an instance has passed = true if and
\* only if the instance ended without an instance-level exception, every
\* StepRecord of the instance has ok = true and every AssertionRecord of the
\* instance has passed = true.
C5_PassedIffAllOkAndNoException ==
  \A i \in Instances : \A r \in 1..Len(instance_records[i]) :
     instance_records[i][r].passed <=>
        /\ instance_records[i][r].error = "None"
        /\ AllStepsOk(i)
        /\ AllAssertionsPassed(i)

\* C5 witness: one instance passed with an ok step and a passed assertion,
\* another was recorded as failed because of a failing step.
C5_Witness ==
  \E i \in Instances : \E j \in Instances :
    /\ Len(instance_records[i]) = 1
    /\ instance_records[i][1].passed
    /\ Len(assertion_records[i]) >= 1
    /\ Len(instance_records[j]) = 1
    /\ ~instance_records[j][1].passed
    /\ instance_records[j][1].error = "None"
    /\ ~AllStepsOk(j)

\* C20: an exception raised inside one instance task is caught at the
\* instance boundary: exactly one InstanceRecord with passed = false and a
\* populated error is written for that instance, every other instance still
\* runs to completion, and the run eventually ends with exactly one
\* InstanceRecord for each of the N instances.
C20_ExceptionIsolated ==
  /\ [](\A i \in Instances :
          /\ Len(instance_records[i]) <= 1
          /\ (task[i] = "done") <=> (Len(instance_records[i]) = 1)
          /\ \A r \in 1..Len(instance_records[i]) :
               instance_records[i][r].error # "None" => ~instance_records[i][r].passed)
  /\ <>[](/\ sink = "closed"
          /\ \A i \in Instances :
               /\ task[i] = "done"
               /\ Len(instance_records[i]) = 1)

\* C20 witness: the run ended; one instance was recorded as failed with an
\* error and another, which started after it had failed, passed.
C20_Witness ==
  /\ sink = "closed"
  /\ run.parallelism = 1
  /\ \E i, j \in Instances :
       /\ instance_records[i] = <<[passed |-> FALSE, error |-> "exception"]>>
       /\ Len(instance_records[j]) = 1
       /\ instance_records[j][1].passed
       /\ Len(step_records[j]) >= 1

(***************************************************************************)
(* Properties of the HTTP retry state machine.                             *)
(***************************************************************************)
\* C9: an HTTP action with a retry config makes at most max_attempts
\* requests whatever the responses, timeouts and connection errors are; it
\* returns one observation, whose attempts list has one entry per request
\* made, in the order of the requests.
C9_BoundedAttempts ==
  /\ Len(request_log) <= retry.max_attempts
  /\ Len(attempts) = Len(request_log)
  /\ \A i \in 1..Len(attempts) :
       /\ attempts[i].status_code = request_log[i].status_code
       /\ (attempts[i].error = "Timeout") <=> (request_log[i].kind = "timeout")
       /\ (attempts[i].error = "ConnectError") <=> (request_log[i].kind = "connection_error")
       /\ (attempts[i].error = "None") <=> (request_log[i].kind = "response")
  /\ Len(observations) = (IF phase = "done" THEN 1 ELSE 0)
  /\ phase = "done" => observations[1].attempts = attempts

\* C9 witness: the action ended after max_attempts = 3 requests that met a
\* timeout, a connection error and a response, in that order.
C9_Witness ==
  /\ phase = "done"
  /\ retry.max_attempts = 3
  /\ Len(observations) = 1
  /\ Len(observations[1].attempts) = 3
  /\ request_log[1].kind = "timeout"
  /\ request_log[2].kind = "connection_error"
  /\ request_log[3].kind = "response"

\* The retry policy of the configuration, as the specification states it.
RetriableOutcome(outcome) ==
  \/ outcome.kind = "response" /\ outcome.status_code \in retry.on_status
  \/ outcome.kind = "timeout" /\ retry.on_timeout
  \/ outcome.kind = "connection_error" /\ retry.on_connection_error

\* C10: an attempt is followed by another attempt only if its outcome is
\* retriable and fewer than max_attempts attempts have been made; any other
\* outcome ends the action at that attempt, whatever attempts remain.
C10_RetryOnlyWhenRetriable ==
  [][/\ \A i \in 1..(Len(request_log') - 1) :
          RetriableOutcome(request_log'[i]) /\ i < retry.max_attempts
     /\ (/\ Len(request_log') = Len(request_log) + 1
         /\ ~RetriableOutcome(request_log'[Len(request_log')]))
          => phase' = "done"
     /\ phase = "done" => request_log' = request_log]_vars

\* C10 witness: with max_attempts = 3 the action ended at its second attempt:
\* a retriable timeout, then a 404 that is not in on_status.
C10_Witness ==
  /\ phase = "done"
  /\ retry.max_attempts = 3
  /\ Len(request_log) = 2
  /\ request_log[1].kind = "timeout"
  /\ request_log[2].kind = "response"
  /\ request_log[2].status_code = 404
  /\ 404 \notin retry.on_status

\* C11: the terminal fields of an HTTP observation are those of the final
\* attempt: status_code is the final attempt's status; ok = true implies the
\* final attempt was a successful response; ok = false implies that
\* attempts.length = max_attempts or the final failure was not retriable.
C11_TerminalFields ==
  phase = "done" =>
    LET obs == observations[1]
        n == Len(request_log)
        final == request_log[n]
    IN /\ n >= 1
       /\ Len(obs.attempts) = n
       /\ obs.status_code = final.status_code
       /\ obs.status_code = obs.attempts[n].status_code
       /\ obs.ok => (final.kind = "response" /\ final.status_code = 200)
       /\ ~obs.ok => (n = retry.max_attempts \/ ~RetriableOutcome(final))

\* C11 witness: 503 is retriable, the responses were 503 then 200, and the
\* observation is ok with the status of the second attempt, not the first.
C11_Witness ==
  /\ phase = "done"
  /\ retry.max_attempts = 3
  /\ 503 \in retry.on_status
  /\ Len(request_log) = 2
  /\ request_log[1].status_code = 503
  /\ request_log[2].status_code = 200
  /\ observations[1].ok
  /\ observations[1].status_code = 200

\* C12: an HTTP action that makes k attempts performs exactly k - 1 backoff
\* sleeps, one between each pair of consecutive attempts and none after the
\* last (max_attempts = 1 never sleeps); the sleep after attempt i (0-based)
\* lasts delay_ms for fixed backoff and base_delay_ms * 2^i for exponential.
C12_BackoffSleeps ==
  /\ phase = "attempt" => Len(sleeps) = Len(request_log)
  /\ phase = "backoff" => Len(sleeps) = Len(request_log) - 1
  /\ phase = "done" => Len(sleeps) = Len(request_log) - 1
  /\ retry.max_attempts = 1 => sleeps = <<>>
  /\ \A j \in 1..Len(sleeps) :
       sleeps[j] = (IF retry.backoff = "fixed"
                    THEN retry.delay_ms
                    ELSE retry.base_delay_ms * 2^(j - 1))

\* C12 witness: exponential backoff, three attempts made, two sleeps of
\* base_delay_ms and twice base_delay_ms, and no sleep after the last attempt.
C12_Witness ==
  /\ phase = "done"
  /\ retry.backoff = "exponential"
  /\ Len(request_log) = 3
  /\ sleeps = <<retry.base_delay_ms, 2 * retry.base_delay_ms>>

(***************************************************************************)
(* Properties of the decide sub-engine.                                    *)
(***************************************************************************)
Min(a, b) == IF a <= b THEN a ELSE b

OptionNames(options) == { options[i].name : i \in 1..Len(options) }

WeightOf(options, name) ==
  LET i == CHOOSE j \in 1..Len(options) : options[j].name = name
  IN options[i].weight

\* C14: two DecideActionRunners built with the same non-null seed and the
\* same weight map, each asked for the same number of consecutive weighted
\* choices, return identical sequences of choices.
C14_SameSeedSameChoices ==
  dec.seed # NoSeed =>
    /\ \A i \in 1..Min(Len(choices[1]), Len(choices[2])) :
         choices[1][i] = choices[2][i]
    /\ Len(choices[1]) = Len(choices[2]) => choices[1] = choices[2]

\* C14 witness: a seeded pair of runners has each made two choices, the two
\* choices differ from each other, and the runners agree.
C14_Witness ==
  /\ dec.seed # NoSeed
  /\ Len(choices[1]) = 2
  /\ Len(choices[2]) = 2
  /\ choices[1][1] # choices[1][2]
  /\ choices[1] = choices[2]

\* C15: execute with no policy, or with a policy that lacks the decision,
\* returns an observation with ok = false and one error message, and returns
\* the context it was given: no key added or changed, output_var not written.
C15_MissingPolicy ==
  dec.policy # "known" =>
    \A n \in 1..Len(executions) :
      LET e == executions[n]
      IN /\ ~e.observation.ok
         /\ Len(e.observation.errors) = 1
         /\ e.context = dec.context
         /\ e.input = dec.context
         /\ (\E item \in e.context : item[1] = dec.output_var)
              => (\E item \in dec.context : item[1] = dec.output_var)

\* C15 witness: a policy without the decision, a context that has other keys,
\* an output_var the context does not hold, and an execute that has returned.
C15_Witness ==
  /\ dec.policy = "unknown"
  /\ dec.context # {}
  /\ dec.output_var = "next_action"
  /\ Len(executions) >= 1
  /\ ~executions[1].observation.ok

\* C16: a successful execute returns a context that differs from the input
\* only at key output_var, whose value is one of the decision's option names
\* and equals observation.body.result; every other key keeps its value and
\* the input context is not changed.
C16_DecideFrame ==
  \A n \in 1..Len(executions) :
    LET e == executions[n]
        ov == dec.output_var
    IN e.observation.ok =>
         /\ { item \in e.context : item[1] # ov } = { item \in e.input : item[1] # ov }
         /\ { item \in e.context : item[1] = ov } = { <<ov, e.observation.result>> }
         /\ e.observation.result \in OptionNames(dec.options)
         /\ e.observation.errors = <<>>
         /\ e.input = dec.context

\* C16 witness: a successful execute with output_var next_action on a context
\* that already holds user and decision_result.
C16_Witness ==
  /\ Len(executions) >= 1
  /\ executions[1].observation.ok
  /\ dec.output_var = "next_action"
  /\ <<"decision_result", "old">> \in executions[1].context
  /\ <<"user", "u1">> \in executions[1].context

\* C17: when the sum of the weights is positive, _weighted_choice never
\* returns an option whose weight is 0, for every value of the random draw in
\* [0, 1), 0 included, and for every ordering of the options.
C17_NeverZeroWeight ==
  SumWeights(dec.options, Len(dec.options)) > 0 =>
    \A k \in 1..2 : \A i \in 1..Len(choices[k]) :
      WeightOf(dec.options, choices[k][i]) > 0

(***************************************************************************)
(* Properties of the client pool.                                          *)
(***************************************************************************)
\* Calls that returned a client or a channel.
Handed == { n \in 1..Len(returned) : returned[n].result > 0 }

\* No close_all has been called: none returned, none waiting, none running.
OnlyGets ==
  /\ \A n \in 1..Len(returned) : returned[n].op # "close_all"
  /\ \A n \in 1..Len(waiters) : waiters[n].op # "close_all"
  /\ lock_holder = 0

\* C18: for every interleaving of concurrent get_http_client and
\* get_grpc_channel calls from any number of tasks, the pool creates at most
\* one HTTP client and at most one gRPC channel per service name: all calls
\* for the same service return the same object and calls for different
\* services return different objects.
C18_OneClientPerService ==
  OnlyGets =>
    /\ \A i, j \in 1..Len(objects) :
         (objects[i].kind = objects[j].kind /\ objects[i].name = objects[j].name) => i = j
    /\ \A m, n \in Handed :
         /\ (returned[m].op = returned[n].op /\ returned[m].name = returned[n].name)
              => returned[m].result = returned[n].result
         /\ (returned[m].op # returned[n].op \/ returned[m].name # returned[n].name)
              => returned[m].result # returned[n].result
    /\ \A n \in Handed :
         /\ objects[returned[n].result].name = returned[n].name
         /\ objects[returned[n].result].kind =
              (IF returned[n].op = "get_http_client" THEN "http" ELSE "grpc")

\* C18 witness: two tasks asked for the client of api and got the same
\* object, and a call for auth got another object.
C18_Witness ==
  /\ OnlyGets
  /\ \E m, n, k \in Handed :
       /\ returned[m].task # returned[n].task
       /\ returned[m].op = "get_http_client" /\ returned[m].name = "api"
       /\ returned[n].op = "get_http_client" /\ returned[n].name = "api"
       /\ returned[k].op = "get_http_client" /\ returned[k].name = "auth"
       /\ returned[m].result = returned[n].result
       /\ returned[k].result # returned[m].result

InMaps(id) ==
  \/ \E i \in 1..Len(http_clients) : http_clients[i].id = id
  \/ \E i \in 1..Len(grpc_channels) : grpc_channels[i].id = id

\* C19: close_all closes every HTTP client and every gRPC channel currently
\* held by the pool exactly once and leaves both maps empty; a second
\* close_all closes nothing, so no client or channel is ever closed twice by
\* the pool.
C19_CloseAllOnce ==
  /\ \A id \in 1..Len(objects) : objects[id].closed <= 1
  /\ lock_holder = 0 =>
       \A id \in 1..Len(objects) :
         IF InMaps(id) THEN objects[id].closed = 0 ELSE objects[id].closed = 1
  /\ (Len(returned) > 0 /\ returned[Len(returned)].op = "close_all") =>
       (http_clients = <<>> /\ grpc_channels = <<>>)

ConditionRaises(condition, context) ==
  condition = "last_ok" /\ ~has_status(context)

ConditionErrorAtCursor ==
  /\ AtAction
  /\ Cur.condition # ""
  /\ ConditionRaises(Cur.condition, Top.context)

\* C22: when evaluating the condition of a non-branch action raises, the
\* action is not skipped but executed as for a true condition: no exception
\* leaves execute_flow, and when the runner moves past the action its runner
\* has been invoked and the tuple yielded for it is not a condition_skipped
\* one.
C22_ErrorConditionExecutes ==
  [][(ConditionErrorAtCursor /\ Cur.kind \in {"http", "wait", "assert", "decide"}) =>
       /\ status' # "raised"
       /\ frames' # frames =>
            /\ Len(runner_calls') = Len(runner_calls) + 1
            /\ runner_calls'[Len(runner_calls')].path = CurPath
            /\ ~runner_calls'[Len(runner_calls')].observation.condition_skipped
            /\ \A q \in YieldSeqs' :
                 \A j \in 1..Len(q) :
                   q[j].path = CurPath => ~q[j].observation.condition_skipped]_vars

\* C23: when evaluating the condition of a BranchAction raises, the branch
\* walks its if_false list and its decision tuple carries branch_result false
\* and branch_taken if_false; the error does not escape the runner.
C23_ErrorBranchTakesFalse ==
  [][(ConditionErrorAtCursor /\ Cur.kind = "branch") =>
       /\ Len(frames') = Depth + 1
       /\ frames'[Depth + 1].actions = Cur.if_false
       /\ frames'[Depth + 1].path = CurPath \o <<0>>
       /\ frames'[Depth + 1].obs.branch_result = "False"
       /\ frames'[Depth + 1].obs.branch_taken = "if_false"
       /\ frames'[Depth + 1].obs.ok
       /\ status' = "running"
       /\ runner_calls' = runner_calls]_vars

C23_Witness ==
  /\ Len(emitted) >= 2
  /\ emitted[1].path = <<1>>
  /\ emitted[1].kind = "branch"
  /\ emitted[1].observation.branch_condition = "last_ok"
  /\ ~emitted[1].context.has_last
  /\ emitted[1].observation.branch_taken = "if_false"
  /\ emitted[1].observation.branch_result = "False"
  /\ emitted[2].path = <<1, 0, 1>>
  /\ status # "raised"

\* C27: a runner is invoked only after the tuples of the nodes visited before
\* it have reached the consumer of execute_flow; in particular the decision
\* tuple of every branch that encloses the action has been emitted.
C27_LazyExecution ==
  \A i \in 1..Len(runner_calls) :
    \A j \in 1..Len(visits) :
      (visits[j].kind = "branch" /\ IsUnder(visits[j].path, runner_calls[i].path))
        => \E k \in 1..Len(emitted) : emitted[k].path = visits[j].path

\* C28: every delay sleep precedes an action whose index is greater than 0 and
\* lasts step_delay_ms + jitter_ms; no sleep precedes the action at index 0.
C28_DelayOnlyAfterFirst ==
  \A j \in 1..Len(delays) :
    /\ delays[j].idx > 0
    /\ delays[j].ms = scenario.step_delay_ms + scenario.jitter_ms

\* C29: the context is threaded through the visited nodes in order: the first
\* node sees the context execute_flow was given, and every later node (in the
\* parent list or in a branch's child list) sees the context the node visited
\* just before it returned.
C29_ContextThreaded ==
  /\ Len(visits) >= 1 => visits[1].seen = InitialContext
  /\ \A i \in 2..Len(visits) : visits[i].seen = visits[i - 1].out
  /\ (AtAction /\ Len(visits) >= 1) => Top.context = visits[Len(visits)].out

C29_Witness ==
  /\ Len(visits) >= 3
  /\ visits[1].kind = "branch"
  /\ visits[2].path = <<1, 1, 1>>
  /\ visits[2].out # visits[2].seen
  /\ visits[3].path = <<2>>
  /\ visits[3].seen = visits[2].out

\* C30: a GrpcAction in the flow is rendered and run like the other
\* non-branch kinds: its runner is invoked with the pooled channel of its
\* service and no exception escapes execute_flow.
C30_GrpcActionRuns ==
  [][(AtAction /\ Cur.kind = "grpc") =>
       /\ status' # "raised"
       /\ Len(runner_calls') = Len(runner_calls) + 1
       /\ runner_calls'[Len(runner_calls')].path = CurPath
       /\ client_gets' = Append(client_gets, CurPath)]_vars

StepIndexIncreasing(i) ==
  \A k \in 2..Len(step_records[i]) :
    step_records[i][k].step_index > step_records[i][k - 1].step_index

StepsBeforeInstanceRecord(i) ==
  step_records'[i] # step_records[i] =>
    (instance_records[i] = <<>> /\ instance_records'[i] = <<>>)

NoWriteAfterClose ==
  sink = "closed" =>
    /\ step_records' = step_records
    /\ assertion_records' = assertion_records
    /\ instance_records' = instance_records

\* C21: for every interleaving of the instance tasks, the StepRecords of one
\* instance reach the sink in strictly increasing step_index order and before
\* the instance's InstanceRecord, and nothing is written after close().
C21_SinkOrdering ==
  /\ [](\A i \in Instances : StepIndexIncreasing(i))
  /\ [][(\A i \in Instances : StepsBeforeInstanceRecord(i)) /\ NoWriteAfterClose]_vars

\* One of the failures execute meets after the service check: an invalid
\* method format, a reflection failure, an unknown method, a serialization
\* error, a non-OK call status, an extraction error.
GrpcFailure ==
  \/ ~grpc_action.method_has_slash
  \/ ~grpc_env.resolved
  \/ ~grpc_env.method_found
  \/ ~grpc_env.parse_ok
  \/ ~grpc_env.call_ok
  \/ (grpc_action.extract /\ ~grpc_env.extract_ok)

ConfiguredForGrpc ==
  /\ grpc_action.service \in DOMAIN SutServices
  /\ SutServices[grpc_action.service] = "grpc"

\* C24: execute raises exactly when the service is not configured for gRPC;
\* every other failure is returned as an observation with ok false, protocol
\* grpc and a non-empty errors list, with the context as it was passed in.
C24_GrpcFailuresReturned ==
  grpc_result.state \in {"returned", "raised"} =>
    /\ grpc_result.state = "raised" <=> ~ConfiguredForGrpc
    /\ (grpc_result.state = "returned" /\ GrpcFailure) =>
         /\ ~grpc_result.observation.ok
         /\ grpc_result.observation.protocol = "grpc"
         /\ Len(grpc_result.observation.errors) >= 1
         /\ grpc_result.context = grpc_passed
         /\ grpc_context = grpc_passed

C24_Witness ==
  /\ grpc_result.state = "returned"
  /\ grpc_action.extract
  /\ grpc_action.method_has_slash
  /\ grpc_env = [resolved |-> TRUE, method_found |-> TRUE, parse_ok |-> TRUE,
                 call_ok |-> TRUE, extract_ok |-> FALSE]
  /\ ~grpc_result.observation.ok
  /\ grpc_result.context = grpc_passed

\* The registrations of type action_type among the first n.
RegistrationsOf(action_type, n) ==
  { j \in 1..n : registrations[j][1] = action_type }

Last(S) == CHOOSE j \in S : \A k \in S : k <= j

\* C25: create raises and constructs nothing when no class was registered for
\* the action's type; otherwise it constructs an instance of the class most
\* recently registered for that type.
C25_CreateUsesLatestRegistration ==
  \A i \in 1..Len(created) :
    LET regs == RegistrationsOf(created[i].type, created[i].registered)
    IN IF regs = {}
       THEN /\ created[i].result.raised = "ValueError"
            /\ created[i].result.class = "None"
       ELSE /\ created[i].result.raised = "None"
            /\ created[i].result.class = registrations[Last(regs)][2]

C25_Witness ==
  /\ Len(created) = 2
  /\ created[1].result.raised = "ValueError"
  /\ created[2].type = "grpc"
  /\ created[2].result.class = "GrpcActionRunner"
  /\ registrations = << <<"grpc", "DecideActionRunner">>, <<"grpc", "GrpcActionRunner">> >>

\* C26: for metric pass_rate and a threshold value of at most 1.0, evaluate
\* compares the summary's pass rate with value * 100, whatever the pass rate.
C26_RatioConversion ==
  (gate_result.state = "evaluated" /\ threshold.metric = "pass_rate"
     /\ threshold.value <= 100) =>
    gate_result.passed = compare(threshold.operator, parse_float(summary),
                                 float_mul(parse_float(threshold.value), 100))

\* No loaded policy is the one the decide step asks for.
PolicyMissing ==
  \/ policy.loaded = <<>>
  \/ /\ policy.ref # ""
     /\ ~\E i \in 1..Len(policy.loaded) : policy.loaded[i].name = policy.ref

\* C31: the runner of a service-targeting action (http, wait, grpc) is reached
\* through TurbulenceEngine.apply exactly when an engine is configured and a
\* policy resolves, directly otherwise, and once per executed action.
C31_TurbulenceWrapsServiceActions ==
  \A i \in 1..Len(runner_calls) :
    HasService(NodeAt(runner_calls[i].path)) =>
      /\ runner_calls[i].via = IF scenario.turbulence = "policy" THEN "apply" ELSE "direct"
      /\ \A j \in 1..Len(runner_calls) :
           runner_calls[j].path = runner_calls[i].path => j = i

\* C32: a decide step whose policy is missing (none loaded, or a policy_ref
\* that names no loaded policy) yields a failing observation and leaves the
\* context unchanged.
C32_MissingPolicyFails ==
  PolicyMissing =>
    /\ \A i \in 1..Len(runner_calls) :
         runner_calls[i].kind = "decide" => ~runner_calls[i].observation.ok
    /\ \A j \in 1..Len(visits) :
         visits[j].kind = "decide" => visits[j].out = visits[j].seen

\* C35: with stop_when.any_action_fails, once a runner has returned an
\* observation that is not ok, no later runner is invoked.
C35_NoRunnerAfterFailure ==
  scenario.any_action_fails =>
    \A i \in 1..Len(runner_calls) :
      i < Len(runner_calls) => runner_calls[i].observation.ok

Distinct(seq, f(_)) ==
  \A i, j \in 1..Len(seq) : f(seq[i]) = f(seq[j]) => i = j

PathOf(x) == x.path

\* C40: execute_flow terminates, and it visits each action node at most once,
\* invokes at most one runner per visited non-branch node and emits at most
\* one tuple per visited node.
C40_TerminatesVisitingOnce ==
  /\ <>(status \in {"done", "max_steps", "failed", "raised"})
  /\ [](/\ Distinct(visits, PathOf)
        /\ Distinct(runner_calls, PathOf)
        /\ Distinct(emitted, PathOf)
        /\ \A i \in 1..Len(runner_calls) :
             /\ NodeAt(runner_calls[i].path).kind # "branch"
             /\ \E j \in 1..Len(visits) : visits[j].path = runner_calls[i].path
        /\ \A i \in 1..Len(emitted) :
             \E j \in 1..Len(visits) : visits[j].path = emitted[i].path)

C40_Witness ==
  /\ status = "done"
  /\ Len(scenario.flow) = 2
  /\ scenario.flow[2].kind = "branch"
  /\ Len(visits) = 4
  /\ Len(emitted) = 4
  /\ Len(runner_calls) = 3

\* The step returns a get call with an error.
GetFails ==
  /\ Len(returned') = Len(returned) + 1
  /\ returned'[Len(returned')].op \in {"get_http_client", "get_grpc_channel"}
  /\ returned'[Len(returned')].result < 0

\* Somebody can always move: a waiter is woken by a free lock, or the holder
\* of the lock is inside close_all and goes on.
NoPoolDeadlock ==
  waiters # <<>> =>
    \/ lock_holder = 0
    \/ lock_holder \in Tasks /\ pc[lock_holder] \in {"close_http", "close_grpc"}

\* C33: a get call that fails (unknown service, or get_grpc_channel for a
\* service that is not gRPC) raises, adds no entry to either map, creates
\* nothing and leaves the lock free, so that no later call is blocked for ever.
C33_FailedGetReleasesLock ==
  /\ [][GetFails =>
          /\ returned'[Len(returned')].result \in {KeyError, ValueError}
          /\ http_clients' = http_clients
          /\ grpc_channels' = grpc_channels
          /\ objects' = objects
          /\ lock_holder' = 0]_vars
  /\ [](NoPoolDeadlock /\ (lock_holder # 0 => pc[lock_holder] # "idle"))

C33_Witness ==
  /\ Len(returned) >= 3
  /\ returned[1].result = ValueError
  /\ returned[2].result = KeyError
  /\ returned[3].task = returned[1].task
  /\ returned[3].result > 0

\* C39: a get call never returns a client or channel that close_all has
\* closed; a get that returns after a close_all has returned hands out an
\* object that no call before that close_all was given.
C39_NoClosedClientReturned ==
  /\ [][(Len(returned') = Len(returned) + 1 /\ returned'[Len(returned')].result > 0)
          => objects'[returned'[Len(returned')].result].closed = 0]_vars
  /\ [](\A m, n \in 1..Len(returned) :
          (m < n /\ returned[m].op = "close_all" /\ returned[m].result = 0
                 /\ returned[n].result > 0) =>
            \A k \in 1..(m - 1) : returned[k].result # returned[n].result)

\* C36: with a non-null seed every decide step builds its generator from the
\* same seed, so the first choice of every runner built for the same weight
\* map is the same option, however many choices were made before it.
C36_FreshRunnerSameChoice ==
  dec.seed # NoSeed =>
    \A k1, k2 \in 1..2 :
      (Len(choices[k1]) >= 1 /\ Len(choices[k2]) >= 1) =>
        choices[k1][1] = choices[k2][1]

C36_Witness ==
  /\ dec.seed # NoSeed
  /\ Len(choices[1]) = 2
  /\ choices[1][2] # choices[1][1]
  /\ Len(choices[2]) = 1
  /\ choices[2][1] = choices[1][1]
  /\ Len(executions) >= 1
  /\ executions[Len(executions)].runner = 2
  /\ executions[Len(executions)].observation.result = choices[1][1]

\* C37: execute never raises: whatever the policy and the weight map, an
\* empty map and an all-zero map included, the call returns an observation
\* and a context.
C37_ExecuteNeverRaises ==
  [][\A k \in 1..2 :
       Execute(k) =>
         /\ dec_raised' = dec_raised
         /\ Len(executions') = Len(executions) + 1]_vars

\* C34: execute never closes a channel it was built with, whether it returns
\* a response, returns an error observation or raises; a channel it creates
\* itself because it was built with none is closed when it returns.
C34_PooledChannelLeftOpen ==
  grpc_result.state \in {"returned", "raised"} =>
    /\ runner_channel # "None" =>
         ~(grpc_result.channel = runner_channel /\ grpc_result.closed)
    /\ (runner_channel = "None" /\ grpc_result.state = "returned") =>
         /\ grpc_result.channel = "temporary"
         /\ grpc_result.closed

C34_Witness ==
  /\ grpc_result.state = "returned"
  /\ runner_channel = "pooled"
  /\ grpc_result.channel = "pooled"
  /\ ~grpc_result.closed
  /\ ~grpc_result.observation.ok
  /\ ~grpc_env.call_ok

\* The multiset of the elements of a sequence.
RecordBag(seq) ==
  [x \in {seq[i] : i \in DOMAIN seq} |-> Cardinality({i \in DOMAIN seq : seq[i] = x})]

\* The records each writer holds, read back as records.
JsonlHeld(file) ==
  RecordBag([i \in DOMAIN jsonl[file] |-> json_loads(jsonl[file][i])])

SqliteInstancesHeld ==
  [x \in {[instance_id |-> r.id, passed |-> r.status = "pass"] : r \in sqlite.instances}
     |-> 1]

SqliteStepsHeld ==
  RecordBag([i \in DOMAIN sqlite.steps |->
               [instance_id |-> sqlite.steps[i].instance_id,
                step_index |-> sqlite.steps[i].step_index]])

SqliteAssertionsHeld ==
  RecordBag([i \in DOMAIN sqlite.assertions |->
               [instance_id |-> sqlite.assertions[i].instance_id,
                step_index |-> sqlite.assertions[i].step_index,
                passed |-> sqlite.assertions[i].passed = 1]])

\* C38: driven by the same calls, and with no line written to the files
\* past the writers, the JSONL writer and the SQLite writer raise on the same
\* calls and hold the same multiset of instance, step and assertion records.
C38_WritersAgree ==
  jsonl_direct = 0 =>
  /\ \A i \in DOMAIN storage_calls :
       storage_calls[i].jsonl_raised = "None" <=> storage_calls[i].sqlite_raised = "None"
  /\ JsonlHeld("instances") = SqliteInstancesHeld
  /\ JsonlHeld("steps") = SqliteStepsHeld
  /\ JsonlHeld("assertions") = SqliteAssertionsHeld

====
